---- MODULE Spec2Model ----
(***************************************************************************)
(* homebridge-casambi: the platform's discovery and reconnect logic, the   *)
(* network sessions and the shared WebSocket connection of the Casambi     *)
(* Cloud API client, as a state machine.                                   *)
(*                                                                         *)
(* JavaScript runs each event-loop task (an event callback, a timer, an    *)
(* API call) to completion together with the promise reactions it makes    *)
(* runnable, so every action below is one such task.  A promise that       *)
(* stays pending across tasks is a record in waitOpen or handlers.         *)
(***************************************************************************)
EXTENDS Integers, Sequences, FiniteSets, Bags, TLC

\* ---------------------------------------------------------------- constants
MAX_WIRE_ID == 99
PING_INTERVAL == 30000
PONG_TIMEOUT == PING_INTERVAL + 2000
SESSION_RETRY_DELAY == 30000
CONNECTION_RETRY_DELAY == 5000
UNITCHANGED_DELAY == 500
SUPPRESS_WINDOW == 1000
\* Date.now() when the accessory is constructed; a time later than
\* SUPPRESS_WINDOW after the epoch
Epoch == 100000
CONTROLUNIT_TIMEOUT == 3000

\* ------------------------------------------------------------------- bounds
\* networks (sessions) a login can yield
MaxSessions == 2
\* HomeKit set requests (accessory commands) issued by the user
MaxCmds == 1
\* sockets that fail to open, are closed by the peer or are terminated
MaxLost == 2
\* consecutive failed logins
MaxLoginFailures == 2
\* sites of a user account
MaxSites == 2
\* commands issued while wires are allocated round the whole range of wire IDs
MaxWireCmds == 100
\* open handshakes unsettled at once while they are
MaxPending == 1
\* pushes an accessory receives for its own unit
MaxPushes == 4
\* set requests HomeKit makes of an accessory
MaxRequests == 2
\* instants of the fine clock (the debounce delay is five of its steps)
MaxTicks == 12
\* instants of the coarse clock (one step is the debounce delay)
MaxSteps == 8
\* pushes an accessory receives for its own unit under the coarse clock
MaxUpdates == 2
\* seconds the connection is followed for
MaxSeconds == 70
\* unit addresses
MaxAddresses == 3
\* units in the unit list of a network
MaxUnits == 2
\* calls of newWireId
MaxCalls == 250

VARIABLES
  phase,       \* progress of CasambiPlatform.discoverDevices
  nSess,       \* Len(platform.sessions); the sessions are 1..nSess
  listed,      \* sessions whose unit list has been processed (accessories exist)
  failures,    \* consecutive failed logins
  platLst,     \* times the platform registered its connection listeners
  wireId,      \* CasambiNetworkSession.wireId, per session
  wireSock,    \* the socket on which the held wire was confirmed (0: none)
  nextWireId,  \* CasambiConnection.nextWireId
  ws,          \* CasambiConnection.ws: index into sock, 0 = undefined
  sock,        \* every WebSocket created so far
  timers,      \* the live timers, a bag
  waitOpen,    \* openWire calls awaiting the promise of open()
  handlers,    \* openWire calls awaiting wireStatus (messageHandler listeners)
  opens,       \* per session: open frames sent since the last 'close', not rejected
  nCmds,       \* accessory commands issued so far
  closes,      \* 'close' events the connection has emitted
  config,      \* the platform's PlatformConfig
  acc,         \* a LuminaireAccessory, its characteristics and its timers
  clock,       \* the time, when and by which socket's event the watchdog was
               \* armed last, and the sockets whose 'close' onClose has handled
  reg,         \* the accessories: restored from the cache, found, registered,
               \* unregistered
  closing,     \* closeWire calls whose close frame is being written
  out          \* what the last task did: frames sent, events emitted, callbacks

vars == <<phase, nSess, listed, failures, platLst, wireId, wireSock, nextWireId,
          ws, sock, timers, waitOpen, handlers, opens, nCmds, closes, config, acc,
          clock, reg, closing, out>>

Sess == 1..MaxSessions

\* an observable effect of a task
Ev(e, s, w) == [ev |-> e, s |-> s, w |-> w]

\* -------------------------------------------------------------- the state
\* Handlers are written as functions from state to state, so that a task can
\* run several of them in the order the code does.
Cur ==
  [phase |-> phase, nSess |-> nSess, listed |-> listed, failures |-> failures,
   platLst |-> platLst, wireId |-> wireId, wireSock |-> wireSock,
   nextWireId |-> nextWireId, ws |-> ws, sock |-> sock, timers |-> timers,
   waitOpen |-> waitOpen, handlers |-> handlers, opens |-> opens,
   nCmds |-> nCmds, closes |-> closes, config |-> config, acc |-> acc,
   clock |-> clock, reg |-> reg, closing |-> closing, out |-> <<>>]

Becomes(st) ==
  /\ phase' = st.phase
  /\ nSess' = st.nSess
  /\ listed' = st.listed
  /\ failures' = st.failures
  /\ platLst' = st.platLst
  /\ wireId' = st.wireId
  /\ wireSock' = st.wireSock
  /\ nextWireId' = st.nextWireId
  /\ ws' = st.ws
  /\ sock' = st.sock
  /\ timers' = st.timers
  /\ waitOpen' = st.waitOpen
  /\ handlers' = st.handlers
  /\ opens' = st.opens
  /\ nCmds' = st.nCmds
  /\ closes' = st.closes
  /\ config' = st.config
  /\ acc' = st.acc
  /\ clock' = st.clock
  /\ reg' = st.reg
  /\ closing' = st.closing
  /\ out' = st.out

Emit(st, e) == [st EXCEPT !.out = Append(@, e)]

\* the sequence q without its i-th element
RemoveAt(q, i) == SubSeq(q, 1, i - 1) \o SubSeq(q, i + 1, Len(q))

\* ws ? ws.readyState : WebSocket.CLOSED
ReadyState(st) == IF st.ws = 0 THEN "CLOSED" ELSE st.sock[st.ws].rs

\* ------------------------------------------------- CasambiConnection, sessions
\* A timer: its kind, the time left until it fires, and whether the handle
\* (this.pingInterval, this.pongTimeout) refers to it.
Timer(kind, delay, h) == [kind |-> kind, rem |-> delay, h |-> h]

SetTimer(ts, t) == ts (+) SetToBag({t})

RemoveTimer(ts, t) == ts (-) SetToBag({t})

\* the timers of a kind the handle refers to (the handle holds one timer)
Held(ts, kind) == {t \in BagToSet(ts) : t.kind = kind /\ t.h}

\* clearTimeout/clearInterval of the timer the handle refers to
ClearHandle(ts, kind) ==
  IF Held(ts, kind) = {} THEN ts ELSE RemoveTimer(ts, CHOOSE t \in Held(ts, kind) : TRUE)

\* a handle is overwritten: a timer it referred to stays live, unreferenced
DropHandle(ts, kind) ==
  IF Held(ts, kind) = {} THEN ts
  ELSE LET t == CHOOSE x \in Held(ts, kind) : TRUE
       IN SetTimer(RemoveTimer(ts, t), [t EXCEPT !.h = FALSE])

\* ws.send(data, cb) and ws.ping() succeed on an OPEN socket only
CanSend(st) == ReadyState(st) = "OPEN"

\* a sendControlUnit that leaves the callback to the confirmation by the device
SendControlUnit_AwaitsPush(st, s) ==
  IF CanSend(st)
  THEN Emit(st, Ev("controlUnit", s, st.wireId[s]))
  ELSE Emit(st, Ev("cb_err", s, 0))

\* CasambiConnection.sendControlUnit, and the accessory's callback on its outcome
SendControlUnit(st, s) ==
  IF CanSend(st)
  THEN Emit(Emit(st, Ev("controlUnit", s, st.wireId[s])), Ev("cb_ok", s, 0))
  ELSE Emit(st, Ev("cb_err", s, 0))

\* the reactions to session.openWire(): of sendControlUnit (cont = "cmd") and of
\* platform.connect (cont = "connect": a .then that logs, without a catch)
Resolved(st, s, cont) == IF cont = "cmd" THEN SendControlUnit(st, s) ELSE st

Rejected(st, s, cont) ==
  IF cont = "cmd" THEN Emit(st, Ev("cb_err", s, 0)) ELSE Emit(st, Ev("unhandled", s, 0))

\* a counter that is not wrapped
NewWireId_NoWrap(wireIdNow) == wireIdNow + 1

\* the value nextWireId takes when newWireId() has returned wireId
NewWireId(wireIdNow) == (wireIdNow % MAX_WIRE_ID) + 1

\* Math.random().toString(36): a token no pending open uses
FreshRef(st) ==
  LET used == {st.waitOpen[i].ref : i \in DOMAIN st.waitOpen}
                \cup {st.handlers[i].ref : i \in DOMAIN st.handlers}
  IN CHOOSE r \in 1..(Cardinality(used) + 1) :
       r \notin used /\ \A q \in 1..(r - 1) : q \in used

NewSocket == [rs |-> "CONNECTING", lst |-> 0, pinged |-> FALSE]

\* CasambiConnection.open(), up to the promise it returns: a socket is created
\* unless this.ws is CONNECTING or OPEN
Open(st) ==
  IF ReadyState(st) \in {"CONNECTING", "OPEN"}
  THEN st
  ELSE Emit([st EXCEPT !.sock = Append(@, NewSocket), !.ws = Len(st.sock) + 1],
            Ev("newSocket", 0, Len(st.sock) + 1))

\* the reaction of openWire to open() fulfilled: the messageHandler is installed
\* and the open frame is sent; the promise of sendMessage is dropped
StartHandshake(st, p) ==
  LET h == [ref |-> p.ref, s |-> p.s, w |-> p.w, cont |-> p.cont,
            sock |-> IF CanSend(st) THEN st.ws ELSE 0]
      st1 == [st EXCEPT !.handlers = Append(@, h)]
  IN IF CanSend(st)
     THEN Emit([st1 EXCEPT !.opens[p.s] = @ + 1], Ev("open", p.s, p.w))
     ELSE Emit(st1, Ev("unhandled", p.s, 0))

RECURSIVE StartHandshakes(_, _)
StartHandshakes(st, ps) ==
  IF ps = <<>> THEN st ELSE StartHandshakes(StartHandshake(st, Head(ps)), Tail(ps))

\* CasambiConnection.openWire
ConnOpenWire(st, s, cont) ==
  LET w == st.nextWireId
      st1 == [st EXCEPT !.nextWireId = NewWireId(w)]
      p == [s |-> s, w |-> w, ref |-> FreshRef(st), cont |-> cont]
      st2 == Open(st1)
  IN IF ReadyState(st1) = "OPEN"
     THEN StartHandshake(st2, p)
     ELSE [st2 EXCEPT !.waitOpen =
             Append(@, [sock |-> st2.ws, s |-> s, w |-> w, ref |-> p.ref, cont |-> cont])]

\* an openWire that asks the connection for a wire on every call
SessionOpenWire_Always(st, s, cont) == ConnOpenWire(st, s, cont)

\* CasambiNetworkSession.openWire
SessionOpenWire(st, s, cont) ==
  IF st.wireId[s] > 0 THEN Resolved(st, s, cont) ELSE ConnOpenWire(st, s, cont)

\* CasambiConnection.closeWire: sendMessage rejects when ws.send throws (no
\* socket, or one that is connecting) or reports an error (a socket that is
\* closing or closed); on an open socket the frame is written and the promise
\* waits for the callback of ws.send
ConnCloseWire(st, s, w) ==
  IF CanSend(st)
  THEN Emit([st EXCEPT !.closing = Append(@, [s |-> s, w |-> w, sock |-> st.ws])],
            Ev("closeFrame", s, w))
  ELSE Emit(st, Ev("closeRejected", s, w))

\* a closeWire that gives up the wire before the frame is written
SessionCloseWire_Eager(st, s) ==
  IF st.wireId[s] = 0 THEN Emit(st, Ev("closeResolved", s, 0))
  ELSE ConnCloseWire([st EXCEPT !.wireId[s] = 0, !.wireSock[s] = 0], s, st.wireId[s])

\* CasambiNetworkSession.closeWire, up to the promise it returns
SessionCloseWire(st, s) ==
  IF st.wireId[s] = 0 THEN Emit(st, Ev("closeResolved", s, 0))
  ELSE ConnCloseWire(st, s, st.wireId[s])

\* the callback of ws.send for the i-th close frame being written, and the
\* then of session.closeWire when it reports no error
CloseSent(st, i, ok) ==
  LET c == st.closing[i]
      st1 == [st EXCEPT !.closing = RemoveAt(@, i)]
  IN IF ok
     THEN Emit(Emit([st1 EXCEPT !.wireId[c.s] = 0, !.wireSock[c.s] = 0],
                    Ev("wireClose", c.s, c.w)),
               Ev("closeResolved", c.s, c.w))
     ELSE Emit(st1, Ev("closeRejected", c.s, c.w))

\* CasambiPlatform.connect
RECURSIVE ConnectFrom(_, _)
ConnectFrom(st, s) ==
  IF s > st.nSess THEN st ELSE ConnectFrom(SessionOpenWire(st, s, "connect"), s + 1)

Connect(st) == ConnectFrom(Emit(st, Ev("connect", 0, 0)), 1)

\* an onPong that arms a watchdog without clearing the one that is pending
OnPong_NoClear(st) ==
  [st EXCEPT !.timers = SetTimer(DropHandle(@, "pong"), Timer("pong", PONG_TIMEOUT, TRUE)),
             !.clock.armed = st.clock.now]

\* CasambiConnection.onPong
OnPong(st) ==
  [st EXCEPT !.timers = SetTimer(ClearHandle(@, "pong"), Timer("pong", PONG_TIMEOUT, TRUE)),
             !.clock.armed = st.clock.now]

\* CasambiConnection.onOpen, for this.ws defined: the listeners go to this.ws
OnOpen(st) ==
  LET k == st.ws
      st1 == [st EXCEPT
                !.sock[k].lst = IF st.sock[k].rs = "CLOSED" THEN @ ELSE @ + 1,
                !.timers = SetTimer(DropHandle(@, "ping"), Timer("ping", PING_INTERVAL, TRUE))]
  IN Emit(OnPong(st1), Ev("connOpen", 0, 0))

\* CasambiPlatform.onConnectionClose, once per registration of the listener
RECURSIVE PlatformOnConnectionClose(_, _)
PlatformOnConnectionClose(st, n) ==
  IF n = 0 THEN st
  ELSE PlatformOnConnectionClose(
         [st EXCEPT !.timers = SetTimer(@, Timer("reconnect", CONNECTION_RETRY_DELAY, FALSE))],
         n - 1)

\* sessions that keep their wire when the connection closes
SessionsOnConnectionClose_Keep(st) == st

\* CasambiNetworkSession.onConnectionClose, of every session
SessionsOnConnectionClose(st) ==
  [st EXCEPT !.wireId = [s \in Sess |-> 0], !.wireSock = [s \in Sess |-> 0],
             !.opens = [s \in Sess |-> 0]]

\* CasambiConnection.onClose and the listeners of its 'close' event
OnClose(st) ==
  LET st1 == [st EXCEPT !.timers = ClearHandle(ClearHandle(@, "ping"), "pong"), !.ws = 0,
                        !.closes = @ + 1]
  IN PlatformOnConnectionClose(
       SessionsOnConnectionClose(Emit(st1, Ev("close", 0, 0))), st.platLst)

\* a listener registered n times runs n times
RECURSIVE OnCloseTimes(_, _)
OnCloseTimes(st, n) == IF n = 0 THEN st ELSE OnCloseTimes(OnClose(st), n - 1)

\* the socket's 'close' event: onClose where onOpen registered it, and the
\* promises of open() still waiting on this socket reject
CloseEvent(st, k) ==
  LET st1 == [st EXCEPT !.sock[k] = [rs |-> "CLOSED", lst |-> 0, pinged |-> FALSE],
                        !.clock.handled = IF st.sock[k].lst > 0 THEN @ \cup {k} ELSE @]
      st2 == OnCloseTimes(st1, st.sock[k].lst)
      mine == SelectSeq(st2.waitOpen, LAMBDA p : p.sock = k)
      rest == SelectSeq(st2.waitOpen, LAMBDA p : p.sock # k)
      RECURSIVE RejectAll(_, _)
      RejectAll(s0, ps) ==
        IF ps = <<>> THEN s0
        ELSE RejectAll(Rejected(s0, Head(ps).s, Head(ps).cont), Tail(ps))
  IN RejectAll([st2 EXCEPT !.waitOpen = rest], mine)

\* the socket's 'open' event: onOpen first, which throws when this.ws is undefined
\* so that the listeners after it are not called; then the promises of open()
OpenEvent(st, k) ==
  LET st0 == [st EXCEPT !.sock[k].rs = "OPEN", !.clock.by = IF st.ws = 0 THEN @ ELSE k]
      st1 == OnOpen(st0)
      mine == SelectSeq(st1.waitOpen, LAMBDA p : p.sock = k)
      rest == SelectSeq(st1.waitOpen, LAMBDA p : p.sock # k)
  IN IF st0.ws = 0
     THEN Emit(st0, Ev("uncaught", 0, 0))
     ELSE StartHandshakes([st1 EXCEPT !.waitOpen = rest], mine)

\* ws.terminate() in the watchdog
Terminate(st) ==
  IF st.ws = 0 THEN Emit(st, Ev("uncaught", 0, 0))
  ELSE IF st.sock[st.ws].rs \in {"CONNECTING", "OPEN"}
       THEN [st EXCEPT !.sock[st.ws].rs = "CLOSING"]
       ELSE st

\* the pongTimeout callback
PongTimeoutFired(st) == Terminate(Emit(st, Ev("timeout", 0, 0)))

\* CasambiConnection.sendPing
SendPing(st) ==
  IF st.ws = 0 \/ ReadyState(st) = "CONNECTING" THEN Emit(st, Ev("uncaught", 0, 0))
  ELSE IF ReadyState(st) = "OPEN"
       THEN Emit([st EXCEPT !.sock[st.ws].pinged = TRUE], Ev("ping", 0, st.ws))
       ELSE st

\* a messageHandler that gives up the connection when the server rejects the wire
WireStatus_Terminates(st, i, ok) ==
  LET h == st.handlers[i]
      st1 == [st EXCEPT !.handlers = RemoveAt(@, i)]
  IN IF ok
     THEN Resolved(Emit([st1 EXCEPT !.wireId[h.s] = h.w, !.wireSock[h.s] = h.sock],
                        Ev("wireOpen", h.s, h.w)),
                   h.s, h.cont)
     ELSE Terminate(Rejected(Emit([st1 EXCEPT !.opens[h.s] = IF @ > 0 THEN @ - 1 ELSE 0],
                                  Ev("wireRejected", h.s, h.w)),
                             h.s, h.cont))

\* the messageHandler of openWire on a wireStatus message with its ref, then the
\* reactions of session.openWire
WireStatus(st, i, ok) ==
  LET h == st.handlers[i]
      st1 == [st EXCEPT !.handlers = RemoveAt(@, i)]
  IN IF ok
     THEN Resolved(Emit([st1 EXCEPT !.wireId[h.s] = h.w, !.wireSock[h.s] = h.sock],
                        Ev("wireOpen", h.s, h.w)),
                   h.s, h.cont)
     ELSE Rejected(Emit([st1 EXCEPT !.opens[h.s] = IF @ > 0 THEN @ - 1 ELSE 0],
                        Ev("wireRejected", h.s, h.w)),
                   h.s, h.cont)

\* CasambiNetworkSession.onMessage of every session, for a unitChanged,
\* peerChanged or networkUpdated message with wire w
RECURSIVE SessionsOnMessage(_, _, _)
SessionsOnMessage(st, w, s) ==
  IF s > st.nSess THEN st
  ELSE SessionsOnMessage(
         IF w = st.wireId[s] THEN Emit(st, Ev("unitChanged", s, w)) ELSE st, w, s + 1)

RECURSIVE OnMessageTimes(_, _, _)
OnMessageTimes(st, w, n) ==
  IF n = 0 THEN st ELSE OnMessageTimes(SessionsOnMessage(st, w, 1), w, n - 1)

\* a parsed frame: wireStatus ("absent" when the message has no such key), ref,
\* wire and method
Frame(status, ref, wire, method) ==
  [wireStatus |-> status, ref |-> ref, wire |-> wire, method |-> method]

\* a messageHandler that takes the reply for the wire it asked for, whatever its ref
MessageHandler_ByWire(st, i, m) ==
  IF m.wireStatus # "absent" /\ m.wire = st.handlers[i].w
  THEN WireStatus(st, i, m.wireStatus = "openWireSucceed")
  ELSE st

\* the messageHandler of openWire, installed as the i-th of those pending
MessageHandler(st, i, m) ==
  IF m.wireStatus # "absent" /\ m.ref = st.handlers[i].ref
  THEN WireStatus(st, i, m.wireStatus = "openWireSucceed")
  ELSE st

\* the messageHandlers registered when the message is emitted, in order of
\* registration; one that has removed itself is not called again
RECURSIVE MessageHandlers(_, _, _)
MessageHandlers(st, m, refs) ==
  IF refs = <<>> THEN st
  ELSE LET I == {i \in DOMAIN st.handlers : st.handlers[i].ref = Head(refs)}
       IN MessageHandlers(IF I = {} THEN st ELSE MessageHandler(st, CHOOSE i \in I : TRUE, m),
                          m, Tail(refs))

\* CasambiNetworkSession.onMessage of the sessions from s on
RECURSIVE SessionsOnFrame(_, _, _)
SessionsOnFrame(st, m, s) ==
  IF s > st.nSess THEN st
  ELSE LET st1 == IF m.wire = st.wireId[s] /\ m.method = "unitChanged"
                  THEN Emit(st, Ev("unitChanged", s, m.wire)) ELSE st
           st2 == IF m.wire = st.wireId[s] /\ m.wireStatus # "absent"
                  THEN Emit(st1, Ev("wireStatus", s, m.wire)) ELSE st1
       IN SessionsOnFrame(st2, m, s + 1)

\* CasambiConnection.onMessage on a frame that parses, once: the sessions
\* listen from their construction on, the messageHandlers come after them
OnFrame(st, m) ==
  MessageHandlers(SessionsOnFrame(st, m, 1), m,
                  [i \in DOMAIN st.handlers |-> st.handlers[i].ref])

\* onMessage is called as often as onOpen registered it on the socket
RECURSIVE OnFrameTimes(_, _, _)
OnFrameTimes(st, m, n) == IF n = 0 THEN st ELSE OnFrameTimes(OnFrame(st, m), m, n - 1)

\* CasambiConnection.onMessage on a frame whose text JSON.parse does not accept:
\* the SyntaxError leaves the listener before 'message' is emitted, and the
\* socket calls no listener after the one that threw
OnMalformed(st, k) ==
  Emit(Emit(st, Ev("malformed", 0, k)), Ev("syntaxError", 0, k))

\* ------------------------------------------------ CasambiPlatform.discoverDevices
\* a catch block that takes another status for the rejection of the credentials
IsCredentialRejection_403(err) == err.response /\ err.status = 403

\* error.response && error.response.status === 401
IsCredentialRejection(err) == err.response /\ err.status = 401

LoginErrors ==
  { [response |-> TRUE, status |-> 401], [response |-> TRUE, status |-> 500],
    [response |-> FALSE, status |-> 0] }

\* discoverDevices up to its first await
DiscoverDevices(st) ==
  IF ~st.config.apiKey \/ ~st.config.credentials
  THEN [st EXCEPT !.phase = "misconfigured"]
  ELSE IF st.config.loginMode \in {"user", "network"}
       THEN Emit([st EXCEPT !.phase = "login"], Ev("login", 0, 0))
       ELSE [st EXCEPT !.phase = "misconfigured"]

\* a catch block that logs the error and schedules nothing
LoginFailed_LogOnly(st, err) ==
  IF IsCredentialRejection(err)
  THEN [st EXCEPT !.phase = "rejected"]
  ELSE [st EXCEPT !.phase = "retry", !.failures = @ + 1]

\* the catch block of discoverDevices
LoginFailed(st, err) ==
  IF IsCredentialRejection(err)
  THEN [st EXCEPT !.phase = "rejected"]
  ELSE [st EXCEPT !.phase = "retry", !.failures = @ + 1,
                  !.timers = SetTimer(@, Timer("sessionRetry", SESSION_RETRY_DELAY, FALSE))]

\* api.hap.uuid.generate(unitInfo.address): a function of the address, taken
\* to give different addresses different UUIDs
Uuid(address) == [uuid |-> address]

\* this.accessories as configureAccessory has filled it, the usedUUIDs of the
\* run, the unit lists received, and the calls of registerPlatformAccessories
\* and unregisterPlatformAccessories
Registry(cache) ==
  [cache |-> cache, used |-> {}, seen |-> <<>>, registered |-> <<>>, unregistered |-> <<>>]

Unit(address, type) == [address |-> address, type |-> type]

\* a handlerClass exists for every unit type
HandlerClass_Any(type) == TRUE

\* the switch on unitInfo.type: a handlerClass exists
HandlerClass(type) == type \in {"Driver", "Luminaire"}

\* the body of the loop over the unit list of session s
DiscoverUnit(st, s, u) ==
  IF ~HandlerClass(u.type) THEN st
  ELSE LET uuid == Uuid(u.address)
           st1 == [st EXCEPT !.reg.used = @ \cup {uuid}]
       IN IF uuid \in st.reg.cache
          THEN Emit(st1, Ev("restore", s, uuid))
          ELSE Emit([st1 EXCEPT !.reg.registered = Append(@, uuid)], Ev("register", s, uuid))

RECURSIVE DiscoverUnits(_, _, _)
DiscoverUnits(st, s, units) ==
  IF units = <<>> THEN st ELSE DiscoverUnits(DiscoverUnit(st, s, Head(units)), s, Tail(units))

\* the loop over this.accessories that unregisters what no unit used
RECURSIVE UnregisterFrom(_, _)
UnregisterFrom(st, address) ==
  IF address > MaxAddresses THEN st
  ELSE UnregisterFrom(
         IF Uuid(address) \in st.reg.cache /\ Uuid(address) \notin st.reg.used
         THEN Emit([st EXCEPT !.reg.unregistered = Append(@, Uuid(address))],
                   Ev("unregister", 0, Uuid(address)))
         ELSE st,
         address + 1)

\* the end of discoverDevices, after the last unit list
FinishDiscovery(st) == Connect(UnregisterFrom([st EXCEPT !.phase = "done"], 1))

\* the sites of a user account, each given by the number of its networks
SiteLists ==
  LET RECURSIVE Total(_)
      Total(q) == IF q = <<>> THEN 0 ELSE Head(q) + Total(Tail(q))
  IN {q \in UNION {[1..n -> 0..MaxSessions] : n \in 0..MaxSites} : Total(q) <= MaxSessions}

\* createUserSession resolved: the sites of the response
RECURSIVE UserSessionFrom(_, _, _)
UserSessionFrom(st, sites, i) ==
  IF i > Len(sites) THEN st
  ELSE UserSessionFrom(Emit(st, Ev("site", i, sites[i])), sites, i + 1)

UserSession(st, sites) == UserSessionFrom(Emit(st, Ev("userSession", 0, Len(sites))), sites, 1)

\* one session for every network of a site, and one for every site at that
CreateNetworkSessions_PerSite(sites) == Len(sites)

\* the sessions the loop over userSession.createSites() collects: those of
\* site.createNetworkSessions(), one for every network of the site
RECURSIVE CreateNetworkSessions(_)
CreateNetworkSessions(sites) ==
  IF sites = <<>> THEN 0 ELSE Head(sites) + CreateNetworkSessions(Tail(sites))

\* discoverDevices after a successful login yielding n sessions, up to the
\* first requestUnitList
LoggedIn(st, n) ==
  LET st1 == [st EXCEPT !.nSess = n, !.platLst = @ + 1, !.failures = 0,
                        !.phase = "discover"]
  IN IF n = 0 THEN FinishDiscovery(st1) ELSE st1

\* one pass of the session loop: the unit list has arrived
UnitListed(st) ==
  LET st1 == [st EXCEPT !.listed = @ + 1]
  IN IF st1.listed = st1.nSess THEN FinishDiscovery(st1) ELSE st1

\* the same with the units of the list: accessories are restored or registered
\* (the tasks the awaited fixture information splits the loop into are taken
\* together)
UnitListedWith(st, units) ==
  UnitListed(DiscoverUnits([st EXCEPT !.reg.seen = Append(@, units)], st.listed + 1, units))

\* --------------------------------------------------------- LuminaireAccessory
\* One accessory of a dimmable luminaire with a color temperature control.  Two
\* snapshots of the class differ in how a push is reconciled with a command:
\* "debounce" (the latest one) applies a push when UNITCHANGED_DELAY has gone
\* by without another, "suppress" (the first one) drops the first push within
\* CONTROLUNIT_TIMEOUT of a command.  A third, "timestamp", which listens to the
\* connection itself, drops the first push within SUPPRESS_WINDOW of the
\* completion of a command; a fourth, "unguarded", debounces like the latest one
\* and gives the callback of HomeKit to the promise as it is.  Dimmer values are in hundredths, times in
\* milliseconds, and a quotient is kept as numerator and denominator.
Policies == {"debounce", "suppress"}

\* unitInfo.id of the accessory, and of another unit of the network
UnitId == 1
OtherUnitId == 2

Rat(n, d) == [n |-> n, d |-> d]

\* x < y for quotients with positive denominators
Less(x, y) == x.n * y.d < y.n * x.d

NoCct == [has |-> FALSE, value |-> 0, min |-> 0, max |-> 0]

Cct(value, min, max) == [has |-> TRUE, value |-> value, min |-> min, max |-> max]

\* a unit state: the unit, whether the message has controls, its Dimmer control
\* (-1: none), its CCT control, and whether the unit is online
UnitState(id, controls, dimmer, cct, online) ==
  [id |-> id, controls |-> controls, dimmer |-> dimmer, cct |-> cct, online |-> online]

\* a unitChanged message of a unit that is online
Msg(id, dimmer, cct) == UnitState(id, TRUE, dimmer, cct, TRUE)

\* the constructor; besides the fields of the object and the characteristics
\* (on, bri, ct) the record keeps what was received (pushes), which of it was
\* applied and when, when the last frame was sent and after how many pushes
\* (sent), after how many pushes a callback was last made (acked), and when and
\* after how many pushes a send of the "timestamp" snapshot last completed (done)
NewAccessory(policy) ==
  [policy |-> policy, now |-> 0, tmr |-> {},
   on |-> FALSE, bri |-> 0, ct |-> Rat(1000000, 4000),
   brightness |-> 0, minCCT |-> 2700, maxCCT |-> 4000,
   pushes |-> <<>>, applied |-> <<>>, cb |-> <<>>, cmds |-> 0,
   sent |-> [t |-> -1, n |-> 0], acked |-> 0,
   lastControlUnit |-> 0, done |-> [t |-> -1, n |-> 0]]

\* the snapshots that apply a push after UNITCHANGED_DELAY
Debounces(a) == a.policy \in {"debounce", "unguarded"}

\* the timers a handle (unitChangedTimeout, controlUnitTimeout) refers to
AccHeld(a, kind) == {t \in a.tmr : t.kind = kind /\ t.h}

\* a handler that arms a timer without clearing the one the handle refers to
Rearm_NoClear(a, kind, delay, i) ==
  [a EXCEPT !.tmr = @ \cup {[kind |-> kind, due |-> a.now + delay, i |-> i, h |-> TRUE]}]

\* if (handle) clearTimeout(handle); handle = setTimeout(..., delay)
Rearm(a, kind, delay, i) ==
  [a EXCEPT !.tmr = (@ \ AccHeld(a, kind))
                      \cup {[kind |-> kind, due |-> a.now + delay, i |-> i, h |-> TRUE]}]

\* a timer callback has run and has set the handle to undefined
Fired(a, t) ==
  [a EXCEPT !.tmr = {[u EXCEPT !.h = IF u.kind = t.kind THEN FALSE ELSE @] : u \in @ \ {t}}]

\* updateCharacteristicsFromUnitChanged, for the i-th push received
UpdateCharacteristicsFromUnitChanged(a, i) ==
  LET m == a.pushes[i].msg
      a1 == IF m.dimmer >= 0
            THEN [a EXCEPT !.on = m.dimmer > 0,
                           !.bri = IF m.dimmer > 0 THEN m.dimmer ELSE @,
                           !.brightness = IF m.dimmer > 0 /\ Debounces(a)
                                          THEN m.dimmer ELSE @]
            ELSE a
      a2 == IF m.cct.has
            THEN [a1 EXCEPT !.minCCT = m.cct.min, !.maxCCT = m.cct.max,
                            !.ct = Rat(1000000, m.cct.value)]
            ELSE a1
  IN [a2 EXCEPT !.applied = Append(@, [t |-> a.now, i |-> i])]

\* Date.now(), for an accessory constructed at Epoch
DateNow(a) == Epoch + a.now

\* an update that keeps suppressing until the second has gone by
UpdateCharacteristicsFromUnitState_NoReset(a, m) ==
  IF ~m.controls \/ ~m.online THEN a
  ELSE LET a1 == [a EXCEPT !.pushes = Append(@, [t |-> a.now, msg |-> m])]
       IN IF DateNow(a) - a.lastControlUnit < SUPPRESS_WINDOW
          THEN a1
          ELSE UpdateCharacteristicsFromUnitChanged(a1, Len(a1.pushes))

\* an update that gives up the suppression on a message without a state
UpdateCharacteristicsFromUnitState_Consumes(a, m) ==
  IF ~m.controls \/ ~m.online THEN [a EXCEPT !.lastControlUnit = 0]
  ELSE LET a1 == [a EXCEPT !.pushes = Append(@, [t |-> a.now, msg |-> m])]
       IN IF DateNow(a) - a.lastControlUnit < SUPPRESS_WINDOW
          THEN [a1 EXCEPT !.lastControlUnit = 0]
          ELSE UpdateCharacteristicsFromUnitChanged(a1, Len(a1.pushes))

\* updateCharacteristicsFromUnitState of the "timestamp" snapshot
UpdateCharacteristicsFromUnitState(a, m) ==
  IF ~m.controls \/ ~m.online THEN a
  ELSE LET a1 == [a EXCEPT !.pushes = Append(@, [t |-> a.now, msg |-> m])]
       IN IF DateNow(a) - a.lastControlUnit < SUPPRESS_WINDOW
          THEN [a1 EXCEPT !.lastControlUnit = 0]
          ELSE UpdateCharacteristicsFromUnitChanged(a1, Len(a1.pushes))

\* onMessage of the "timestamp" snapshot, for a unitChanged message of the unit
OnMessage(st, m) ==
  LET a == UpdateCharacteristicsFromUnitState(st.acc, m)
      i == Len(a.pushes)
      st1 == [st EXCEPT !.acc = a]
  IN IF Len(a.pushes) = Len(st.acc.pushes) THEN Emit(st1, Ev("noState", m.id, 0))
     ELSE Emit(Emit(st1, Ev("unitPush", m.id, i)),
               Ev(IF Len(a.applied) = Len(st.acc.applied) THEN "ignoring" ELSE "update", m.id, i))

\* a handler that leaves a pending timer running instead of restarting it
OnUnitChanged_NoRestart(a, i) ==
  IF AccHeld(a, "unitChanged") # {} THEN a ELSE Rearm(a, "unitChanged", UNITCHANGED_DELAY, i)

\* onUnitChanged of the latest snapshot, for the i-th push received
OnUnitChanged(a, i) == Rearm(a, "unitChanged", UNITCHANGED_DELAY, i)

\* a handler that applies every push
OnUnitChangedSuppress_Apply(a, i) == UpdateCharacteristicsFromUnitChanged(a, i)

\* a handler that drops the first push after a command however late it comes
OnUnitChangedSuppress_Sticky(a, i) ==
  IF a.sent.t >= 0 /\ i = a.sent.n + 1
  THEN [a EXCEPT !.tmr = @ \ AccHeld(a, "controlUnit")]
  ELSE UpdateCharacteristicsFromUnitChanged(a, i)

\* a handler that drops every push until the window has run out
OnUnitChangedSuppress_KeepWindow(a, i) ==
  IF AccHeld(a, "controlUnit") # {} THEN a ELSE UpdateCharacteristicsFromUnitChanged(a, i)

\* onUnitChanged of the first snapshot
OnUnitChangedSuppress(a, i) ==
  IF AccHeld(a, "controlUnit") # {}
  THEN [a EXCEPT !.tmr = @ \ AccHeld(a, "controlUnit")]
  ELSE UpdateCharacteristicsFromUnitChanged(a, i)

\* the handler of the accessory behind its test of message.id
Accept(st, m) ==
  IF st.acc.policy = "timestamp" THEN OnMessage(st, m)
  ELSE LET a == [st.acc EXCEPT !.pushes = Append(@, [t |-> st.acc.now, msg |-> m])]
           i == Len(a.pushes)
           st1 == Emit(st, Ev("unitPush", m.id, i))
       IN CASE Debounces(a) -> [st1 EXCEPT !.acc = OnUnitChanged(a, i)]
            [] ~Debounces(a) /\ AccHeld(a, "controlUnit") # {} ->
                 Emit([st1 EXCEPT !.acc = OnUnitChangedSuppress(a, i)], Ev("ignoring", m.id, i))
            [] OTHER ->
                 Emit([st1 EXCEPT !.acc = OnUnitChangedSuppress(a, i)], Ev("update", m.id, i))

\* a handler that takes the messages of every unit
ReceiveUnitChanged_NoFilter(st, m) == Accept(st, m)

\* the session emits unitChanged to the accessory, which filters on the unit
ReceiveUnitChanged(st, m) ==
  IF m.id # UnitId THEN Emit(st, Ev("otherUnit", m.id, 0)) ELSE Accept(st, m)

\* LuminaireAccessory.sendControlUnit: the frame goes to the session (in the
\* first snapshot, to the connection), which calls back later; the first
\* snapshot arms the suppression window
AccessorySendControlUnit(st, frame, char, val) ==
  LET a == [st.acc EXCEPT !.cb = Append(@, [char |-> char, val |-> val]),
                          !.cmds = @ + 1,
                          !.sent = [t |-> st.acc.now, n |-> Len(st.acc.pushes)]]
  IN Emit([st EXCEPT !.acc = IF a.policy = "suppress"
                             THEN Rearm(a, "controlUnit", CONTROLUNIT_TIMEOUT, 0)
                             ELSE a],
          frame)

\* setBrightness
SetBrightness(st, v) ==
  AccessorySendControlUnit(
    IF Debounces(st.acc) THEN [st EXCEPT !.acc.brightness = v] ELSE st,
    Ev("Dimmer", UnitId, v), "bri", v)

\* a setOn that sends whether or not a command was sent just before
SetOn_AlwaysSends(st, value) ==
  AccessorySendControlUnit(Emit(st, Ev("setOn", UnitId, IF value THEN 1 ELSE 0)),
    Ev("Dimmer", UnitId, IF value THEN st.acc.bri ELSE 0), "on", value)

\* a setOn that turns on at the remembered brightness also when that is 0
SetOn_NoDefault(st, value) ==
  AccessorySendControlUnit(Emit(st, Ev("setOn", UnitId, IF value THEN 1 ELSE 0)),
    Ev("Dimmer", UnitId, IF value THEN st.acc.brightness ELSE 0), "on", value)

\* setOn: of the latest snapshot for a dimmer, of the "unguarded" snapshot, and
\* of the first snapshot (the "timestamp" snapshot has no window either)
SetOn(st, value) ==
  LET a == st.acc
      st1 == Emit(st, Ev("setOn", UnitId, IF value THEN 1 ELSE 0))
  IN IF a.policy = "debounce"
     THEN AccessorySendControlUnit(st1,
            Ev("Dimmer", UnitId,
               IF value THEN (IF a.brightness # 0 THEN a.brightness ELSE 100) ELSE 0),
            "on", value)
     ELSE IF a.policy = "unguarded"
     THEN AccessorySendControlUnit(st1,
            Ev("Dimmer", UnitId, IF value THEN a.brightness ELSE 0), "on", value)
     ELSE IF value /\ AccHeld(a, "controlUnit") # {}
          THEN Emit([st1 EXCEPT !.acc.on = TRUE, !.acc.cmds = @ + 1,
                                !.acc.acked = Len(a.pushes)],
                    Ev("cb_ok", UnitId, 0))
          ELSE AccessorySendControlUnit(st1,
                 Ev("Dimmer", UnitId, IF value THEN a.bri ELSE 0), "on", value)

\* Math.max and Math.min of quotients
MaxOf(x, y) == IF Less(x, y) THEN y ELSE x

MinOf(x, y) == IF Less(y, x) THEN y ELSE x

\* a conversion that does not clamp
Kelvin_Unclamped(a, mired) == Rat(1000000, mired)

\* Math.min(Math.max(1e6 / value, this.minCCT), this.maxCCT)
Kelvin(a, mired) == MinOf(MaxOf(Rat(1000000, mired), Rat(a.minCCT, 1)), Rat(a.maxCCT, 1))

\* setColorTemperature
SetColorTemperature(st, mired) ==
  AccessorySendControlUnit(st, Ev("ColorTemperature", UnitId, Kelvin(st.acc, mired)),
                           "ct", Rat(mired, 1))

\* the callback of a set request: HomeKit takes the requested value when the
\* callback reports no error
Callback(st, ok) ==
  LET c == Head(st.acc.cb)
      stamp == ok /\ st.acc.policy = "timestamp"
      a == [st.acc EXCEPT !.cb = Tail(@), !.acked = Len(st.acc.pushes),
                          !.lastControlUnit = IF stamp THEN DateNow(st.acc) ELSE @,
                          !.done = IF stamp THEN [t |-> st.acc.now, n |-> Len(st.acc.pushes)]
                                   ELSE @]
  IN IF ~ok THEN Emit([st EXCEPT !.acc = a], Ev("cb_err", UnitId, 0))
     ELSE Emit([st EXCEPT !.acc =
                  CASE c.char = "on" -> [a EXCEPT !.on = c.val]
                    [] c.char = "bri" -> [a EXCEPT !.bri = c.val]
                    [] OTHER -> [a EXCEPT !.ct = c.val]],
               Ev("cb_ok", UnitId, 0))

\* a sendControlUnit that gives the callback to then and to catch as it is
CallbackThrown_Unguarded(st, ok) ==
  LET st1 == [st EXCEPT !.acc.cb = Tail(@), !.acc.acked = Len(st.acc.pushes)]
  IN IF ok
     THEN Emit(Emit(Emit(Emit(st1, Ev("cb_ok", UnitId, 0)), Ev("thrown", UnitId, 0)),
                    Ev("cb_err", UnitId, 0)),
               Ev("unhandled", UnitId, 0))
     ELSE Emit(Emit(Emit(st1, Ev("cb_err", UnitId, 0)), Ev("thrown", UnitId, 0)),
               Ev("unhandled", UnitId, 0))

\* the promise of a set request settles and the callback of HomeKit throws when
\* it is called: a callback called in then rejects the promise catch is
\* chained to, one called in catch leaves an unhandled rejection.  With
\* onceCallback the catch finds the callback called; without, it calls it again
CallbackThrown(st, ok) ==
  LET st1 == [st EXCEPT !.acc.cb = Tail(@), !.acc.acked = Len(st.acc.pushes)]
  IN IF st.acc.policy \in {"unguarded", "timestamp"} THEN CallbackThrown_Unguarded(st, ok)
     ELSE IF ok
     THEN Emit(Emit(st1, Ev("cb_ok", UnitId, 0)), Ev("thrown", UnitId, 0))
     ELSE Emit(Emit(Emit(st1, Ev("cb_err", UnitId, 0)), Ev("thrown", UnitId, 0)),
               Ev("unhandled", UnitId, 0))

\* loginMode "network" stands for 'network' and for an absent loginMode, which the
\* switch of discoverDevices treats alike
Configs ==
  { [apiKey |-> TRUE, credentials |-> TRUE, loginMode |-> "network"],
    [apiKey |-> TRUE, credentials |-> TRUE, loginMode |-> "user"],
    [apiKey |-> TRUE, credentials |-> TRUE, loginMode |-> "other"],
    [apiKey |-> FALSE, credentials |-> TRUE, loginMode |-> "network"],
    [apiKey |-> TRUE, credentials |-> FALSE, loginMode |-> "user"] }

InitPlatform ==
  /\ phase = "init"
  /\ nSess = 0
  /\ listed = 0
  /\ failures = 0
  /\ platLst = 0
  /\ wireId = [s \in Sess |-> 0]
  /\ wireSock = [s \in Sess |-> 0]
  /\ nextWireId = 1
  /\ ws = 0
  /\ sock = <<>>
  /\ timers = EmptyBag
  /\ waitOpen = <<>>
  /\ handlers = <<>>
  /\ opens = [s \in Sess |-> 0]
  /\ nCmds = 0
  /\ closes = 0
  /\ clock = [now |-> 0, armed |-> 0, by |-> 0, handled |-> {}]
  /\ closing = <<>>
  /\ out = <<>>

Init ==
  /\ config \in Configs
  /\ InitPlatform
  /\ acc = NewAccessory("debounce")
  /\ reg = Registry({})

\* ------------------------------------------------------------------ actions
\* sockets lost so far: failed to open, closing or closed
Lost == Cardinality({k \in DOMAIN sock : sock[k].rs \in {"CLOSING", "CLOSED"}})

\* open handshakes not settled
Pending == Len(waitOpen) + Len(handlers)

\* homebridge's didFinishLaunching event
DidFinishLaunching ==
  /\ phase = "init"
  /\ Becomes(DiscoverDevices(Cur))

\* createNetworkSession / createUserSession resolves
LoginSucceeds ==
  /\ phase = "login"
  /\ \/ /\ config.loginMode = "network"
        /\ Becomes(LoggedIn(Cur, 1))
     \/ /\ config.loginMode = "user"
        /\ \E sites \in SiteLists :
             Becomes(LoggedIn(UserSession(Cur, sites), CreateNetworkSessions(sites)))

\* createNetworkSession / createUserSession rejects
LoginFails ==
  /\ phase = "login"
  /\ \E err \in LoginErrors :
       /\ IsCredentialRejection(err) \/ failures < MaxLoginFailures
       /\ Becomes(Emit(LoginFailed(Cur, err), Ev("loginError", 0, err.status)))

\* session.requestUnitList() resolves for the next session
UnitListArrives ==
  /\ phase = "discover"
  /\ Becomes(UnitListed(Cur))

\* session.requestUnitList() rejects: discoverDevices ends with the exception
UnitListFails ==
  /\ phase = "discover"
  /\ Becomes(Emit([Cur EXCEPT !.phase = "aborted"], Ev("unhandled", 0, 0)))

\* a HomeKit set request on an accessory of session s
AccessorySet(s) ==
  /\ s <= listed
  /\ Becomes(SessionOpenWire(Emit([Cur EXCEPT !.nCmds = @ + 1], Ev("set", s, 0)), s, "cmd"))

SocketOpens(k) ==
  /\ sock[k].rs = "CONNECTING"
  /\ Becomes(OpenEvent(Cur, k))

\* the connection attempt fails: 'close' without 'open'
SocketFails(k) ==
  /\ sock[k].rs = "CONNECTING"
  /\ Becomes(CloseEvent(Cur, k))

\* the peer starts closing, or the network drops: readyState CLOSING
SocketClosing(k) ==
  /\ sock[k].rs = "OPEN"
  /\ Becomes([Cur EXCEPT !.sock[k].rs = "CLOSING"])

SocketCloses(k) ==
  /\ sock[k].rs = "CLOSING"
  /\ Becomes(CloseEvent(Cur, k))

\* a pong answers a ping
PongArrives(k) ==
  /\ sock[k].rs = "OPEN"
  /\ sock[k].lst > 0
  /\ sock[k].pinged
  /\ Becomes(Emit(OnPong([Cur EXCEPT !.sock[k].pinged = FALSE, !.clock.by = k]),
                  Ev("pong", 0, k)))

\* the server answers an open frame it received on a socket that is still open
WireStatusArrives(i, ok) ==
  /\ handlers[i].sock # 0
  /\ sock[handlers[i].sock].rs = "OPEN"
  /\ sock[handlers[i].sock].lst > 0
  /\ Becomes(WireStatus(Cur, i, ok))

\* the server pushes an event of the network of session s, on the wire it
\* confirmed for that session on socket k
EventArrives(k, s) ==
  /\ sock[k].rs = "OPEN"
  /\ sock[k].lst > 0
  /\ wireId[s] # 0
  /\ wireSock[s] = k
  /\ Becomes(OnMessageTimes(Emit(Cur, Ev("push", s, wireId[s])), wireId[s], sock[k].lst))

\* the server (or a proxy on the way) sends a frame that is no JSON text
MalformedArrives(k) ==
  /\ sock[k].rs = "OPEN"
  /\ sock[k].lst > 0
  /\ Becomes(OnMalformed(Cur, k))

\* a timer comes due
\* setInterval: the timer is armed again when it has fired
PingFires(t) ==
  /\ t.kind = "ping"
  /\ Becomes(SendPing([Cur EXCEPT !.timers =
                         SetTimer(RemoveTimer(@, t), Timer("ping", PING_INTERVAL, t.h))]))

PongTimeoutFires(t) ==
  /\ t.kind = "pong"
  /\ Becomes(PongTimeoutFired([Cur EXCEPT !.timers = RemoveTimer(@, t)]))

ReconnectFires(t) ==
  /\ t.kind = "reconnect"
  /\ Becomes(Connect([Cur EXCEPT !.timers = RemoveTimer(@, t)]))

SessionRetryFires(t) ==
  /\ t.kind = "sessionRetry"
  /\ Becomes(DiscoverDevices([Cur EXCEPT !.timers = RemoveTimer(@, t)]))

\* The whole system.  The user issues at most MaxCmds commands and at most
\* MaxLost sockets are lost; timers fire at any time.
Next ==
  \/ DidFinishLaunching
  \/ LoginSucceeds
  \/ LoginFails
  \/ UnitListArrives
  \/ UnitListFails
  \/ \E s \in Sess : nCmds < MaxCmds /\ AccessorySet(s)
  \/ \E k \in DOMAIN sock : SocketOpens(k)
  \/ \E k \in DOMAIN sock : Lost < MaxLost /\ SocketFails(k)
  \/ \E k \in DOMAIN sock : Lost < MaxLost /\ SocketClosing(k)
  \/ \E k \in DOMAIN sock : SocketCloses(k)
  \/ \E k \in DOMAIN sock : PongArrives(k)
  \/ \E i \in DOMAIN handlers, ok \in BOOLEAN : WireStatusArrives(i, ok)
  \/ \E k \in DOMAIN sock, s \in Sess : EventArrives(k, s)
  \/ \E t \in BagToSet(timers) : PingFires(t)
  \/ \E t \in BagToSet(timers) : Lost < MaxLost /\ PongTimeoutFires(t)
  \/ \E t \in BagToSet(timers) : ReconnectFires(t)
  \/ \E t \in BagToSet(timers) : SessionRetryFires(t)

Spec == Init /\ [][Next]_vars

\* ------------------------------------------------------- login and discovery
\* Discovery and the first connection, on a network that stays up: no socket
\* is lost and the keepalive timers do not come due.
NextLogin ==
  \/ DidFinishLaunching
  \/ LoginSucceeds
  \/ LoginFails
  \/ UnitListArrives
  \/ UnitListFails
  \/ \E t \in BagToSet(timers) : SessionRetryFires(t)
  \/ \E s \in Sess : nCmds < MaxCmds /\ AccessorySet(s)
  \/ \E k \in DOMAIN sock : SocketOpens(k)
  \/ \E i \in DOMAIN handlers, ok \in BOOLEAN : WireStatusArrives(i, ok)

SpecLogin == Init /\ [][NextLogin]_vars

\* ------------------------------------------------------------ inbound frames
\* The first connection on a network that stays up, and the frames the server
\* sends on it: wireStatus replies, events and frames that do not parse.
NextMsg ==
  \/ DidFinishLaunching
  \/ LoginSucceeds
  \/ UnitListArrives
  \/ \E s \in Sess : nCmds < MaxCmds /\ AccessorySet(s)
  \/ \E k \in DOMAIN sock : SocketOpens(k)
  \/ \E i \in DOMAIN handlers, ok \in BOOLEAN : WireStatusArrives(i, ok)
  \/ \E k \in DOMAIN sock, s \in Sess : EventArrives(k, s)
  \/ \E k \in DOMAIN sock : MalformedArrives(k)

SpecMsg == Init /\ [][NextMsg]_vars

\* ------------------------------------------------------------ any frame
\* The first connection on a network that stays up, with a peer that may send
\* any frame at any time: replies with a ref no call used or with the ref of
\* one call and the wire of another, events for any wire.
Frames ==
  {Frame(st, r, w, m) : st \in {"absent", "openWireSucceed", "openWireFailed"},
                        r \in 0..(MaxSessions + 1), w \in 1..(MaxSessions + 1),
                        m \in {"unitChanged", "wireStatus"}}

FrameArrives(k, m) ==
  /\ sock[k].rs = "OPEN"
  /\ sock[k].lst > 0
  /\ Becomes(OnFrameTimes(Emit(Cur, Ev("frame", k, m)), m, sock[k].lst))

NextFrames ==
  \/ DidFinishLaunching
  \/ LoginSucceeds
  \/ UnitListArrives
  \/ \E s \in Sess : nCmds < MaxCmds /\ AccessorySet(s)
  \/ \E k \in DOMAIN sock : SocketOpens(k)
  \/ \E k \in DOMAIN sock, m \in Frames : FrameArrives(k, m)

SpecFrames == Init /\ [][NextFrames]_vars

\* ------------------------------------------------------------- keepalive
\* The connection in time.  The clock starts with the first socket and stands
\* still while a socket is connecting; a timer runs out when its time is up;
\* the peer answers a ping at any time or not at all; sockets are lost.  No
\* set request is made, so that a socket is created by connect() only.
Second == PING_INTERVAL \div 30

\* every timer has d less to run
Elapse(ts, d) ==
  LET Later(t) == [t EXCEPT !.rem = @ - d]
      Sooner(u) == [u EXCEPT !.rem = @ + d]
  IN [u \in {Later(t) : t \in BagToSet(ts)} |-> CopiesIn(Sooner(u), ts)]

TickClock ==
  /\ sock # <<>>
  /\ \A k \in DOMAIN sock : sock[k].rs # "CONNECTING"
  /\ clock.now + Second <= MaxSeconds * Second
  /\ \A t \in BagToSet(timers) : t.rem >= Second
  /\ Becomes([Cur EXCEPT !.timers = Elapse(@, Second), !.clock.now = @ + Second])

NextKeepalive ==
  \/ DidFinishLaunching
  \/ LoginSucceeds
  \/ UnitListArrives
  \/ \E k \in DOMAIN sock : SocketOpens(k)
  \/ \E k \in DOMAIN sock : Lost < MaxLost /\ SocketClosing(k)
  \/ \E k \in DOMAIN sock : SocketCloses(k)
  \/ \E k \in DOMAIN sock : PongArrives(k)
  \/ \E i \in DOMAIN handlers : WireStatusArrives(i, TRUE)
  \/ \E t \in BagToSet(timers) : t.rem = 0 /\ PingFires(t)
  \/ \E t \in BagToSet(timers) : t.rem = 0 /\ PongTimeoutFires(t)
  \/ \E t \in BagToSet(timers) : t.rem = 0 /\ ReconnectFires(t)
  \/ TickClock

InitKeepalive ==
  /\ config = [apiKey |-> TRUE, credentials |-> TRUE, loginMode |-> "network"]
  /\ InitPlatform
  /\ acc = NewAccessory("debounce")
  /\ reg = Registry({})

SpecKeepalive == InitKeepalive /\ [][NextKeepalive]_vars

\* ------------------------------------------------------------- accessories
\* Discovery with its unit lists and the accessories homebridge restored from
\* its cache before didFinishLaunching.
Addresses == 1..MaxAddresses

Units == {Unit(a, ty) : a \in Addresses, ty \in {"Luminaire", "Driver", "Gateway"}}

\* the unit lists of a network: a unit has one address
UnitLists ==
  {l \in UNION {[1..n -> Units] : n \in 0..MaxUnits} :
     \A i, j \in DOMAIN l : i # j => l[i].address # l[j].address}

UnitListArrivesWith(units) ==
  /\ phase = "discover"
  /\ Becomes(UnitListedWith(Cur, units))

NextDiscovery ==
  \/ DidFinishLaunching
  \/ LoginSucceeds
  \/ \E units \in UnitLists : UnitListArrivesWith(units)
  \/ UnitListFails

InitDiscovery ==
  /\ config \in {c \in Configs : c.apiKey /\ c.credentials /\ c.loginMode # "other"}
  /\ InitPlatform
  /\ acc = NewAccessory("debounce")
  /\ reg \in {Registry({Uuid(a) : a \in A}) : A \in SUBSET Addresses}

SpecDiscovery == InitDiscovery /\ [][NextDiscovery]_vars

\* ---------------------------------------------------------- wire allocation
\* One connection that stays open while the sessions open wires again and
\* again: a command on a session without a wire makes a new open handshake,
\* which the server confirms or rejects.
NextWire ==
  \/ DidFinishLaunching
  \/ LoginSucceeds
  \/ UnitListArrives
  \/ \E s \in Sess : nCmds < MaxWireCmds /\ Pending < MaxPending /\ AccessorySet(s)
  \/ \E k \in DOMAIN sock : SocketOpens(k)
  \/ \E i \in DOMAIN handlers, ok \in BOOLEAN : WireStatusArrives(i, ok)
  \/ \E k \in DOMAIN sock, s \in Sess : EventArrives(k, s)

SpecWire == Init /\ [][NextWire]_vars


\* ------------------------------------------------------------ the wire counter
\* newWireId() called again and again on a connection as constructed; nCmds
\* counts the calls and out holds the value returned.
NewWireIdCalled ==
  /\ nCmds < MaxCalls
  /\ Becomes(Emit([Cur EXCEPT !.nextWireId = NewWireId(@), !.nCmds = @ + 1],
                  Ev("newWireId", 0, nextWireId)))

NextWireId == NewWireIdCalled

SpecWireId == InitKeepalive /\ [][NextWireId]_vars


\* ------------------------------------------------------------ closing wires
\* The sessions of a connection whose user closes wires: closeWire is called at
\* any time, also twice in a row and on a connection that is being lost.
CloseWireCalled(s) ==
  /\ s <= nSess
  /\ nCmds < MaxRequests
  /\ Becomes(SessionCloseWire(Emit([Cur EXCEPT !.nCmds = @ + 1], Ev("closeWire", s, wireId[s])), s))

\* ws.send calls back: the frame was written, or the socket failed first
CloseSendCompletes(i, ok) ==
  /\ ok => sock[closing[i].sock].rs \in {"OPEN", "CLOSING"}
  /\ Becomes(CloseSent(Cur, i, ok))

NextCloseWire ==
  \/ DidFinishLaunching
  \/ LoginSucceeds
  \/ UnitListArrives
  \/ \E k \in DOMAIN sock : SocketOpens(k)
  \/ \E k \in DOMAIN sock : Lost < MaxLost /\ SocketClosing(k)
  \/ \E k \in DOMAIN sock : SocketCloses(k)
  \/ \E i \in DOMAIN handlers, ok \in BOOLEAN : WireStatusArrives(i, ok)
  \/ \E t \in BagToSet(timers) : ReconnectFires(t)
  \/ \E s \in Sess : CloseWireCalled(s)
  \/ \E i \in DOMAIN closing, ok \in BOOLEAN : CloseSendCompletes(i, ok)

SpecCloseWire == Init /\ [][NextCloseWire]_vars

\* ------------------------------------------------- one accessory, in time
\* The accessory of one unit with its session as environment: pushes arrive,
\* HomeKit makes set requests, the session settles them, timers run out.  The
\* variables of the platform are not read and stay as constructed.
InitAccessory(policies) ==
  /\ config = [apiKey |-> TRUE, credentials |-> TRUE, loginMode |-> "network"]
  /\ InitPlatform
  /\ acc \in {NewAccessory(p) : p \in policies}
  /\ reg = Registry({})

\* session 'unitChanged' event
UnitChangedArrives(m, max) ==
  /\ Len(acc.pushes) < max
  /\ Becomes(ReceiveUnitChanged(Cur, m))

\* the callback given to setTimeout in onUnitChanged
UnitChangedTimeout(t) ==
  /\ t \in acc.tmr
  /\ t.kind = "unitChanged"
  /\ t.due <= acc.now
  /\ Becomes(Emit([Cur EXCEPT !.acc = Fired(UpdateCharacteristicsFromUnitChanged(acc, t.i), t)],
                  Ev("update", UnitId, t.i)))

\* the callback given to setTimeout in sendControlUnit of the first snapshot
ControlUnitTimeout(t) ==
  /\ t \in acc.tmr
  /\ t.kind = "controlUnit"
  /\ t.due <= acc.now
  /\ Becomes(Emit([Cur EXCEPT !.acc = Fired(acc, t)], Ev("info", UnitId, 0)))

HomeKitSetOn(value) ==
  /\ acc.cmds < MaxRequests
  /\ Becomes(SetOn(Cur, value))

HomeKitSetBrightness(v) ==
  /\ acc.cmds < MaxRequests
  /\ Becomes(SetBrightness(Cur, v))

HomeKitSetColorTemperature(mired) ==
  /\ acc.cmds < MaxRequests
  /\ Becomes(SetColorTemperature(Cur, mired))

\* the promise of session.sendControlUnit settles
CallbackArrives(ok) ==
  /\ acc.cb # <<>>
  /\ Becomes(Callback(Cur, ok))

\* the promise of session.sendControlUnit settles and the callback throws
CallbackThrows(ok) ==
  /\ acc.cb # <<>>
  /\ Becomes(CallbackThrown(Cur, ok))

\* time passes; a timer runs out no later than it is due
Tick(d, horizon) ==
  /\ acc.now + d <= horizon
  /\ \A t \in acc.tmr : t.due >= acc.now + d
  /\ Becomes([Cur EXCEPT !.acc.now = @ + d])

Granule == UNITCHANGED_DELAY \div 5

\* Dimmer values of the pushes, in hundredths
Dimmers == {0, 30, 70}

DimmerMsgs == {Msg(UnitId, v, NoCct) : v \in Dimmers}

\* the latest snapshot under bursts of pushes
NextDebounce ==
  \/ \E m \in DimmerMsgs \cup {Msg(OtherUnitId, 30, NoCct)} : UnitChangedArrives(m, MaxPushes)
  \/ \E t \in acc.tmr : UnitChangedTimeout(t)
  \/ Tick(Granule, MaxTicks * Granule)

SpecDebounce == InitAccessory({"debounce"}) /\ [][NextDebounce]_vars

\* both snapshots under set requests and pushes
NextAccessory ==
  \/ \E m \in DimmerMsgs : UnitChangedArrives(m, MaxUpdates)
  \/ \E t \in acc.tmr : UnitChangedTimeout(t)
  \/ \E t \in acc.tmr : ControlUnitTimeout(t)
  \/ \E v \in BOOLEAN : HomeKitSetOn(v)
  \/ \E v \in Dimmers \ {0} : HomeKitSetBrightness(v)
  \/ \E ok \in BOOLEAN : CallbackArrives(ok)
  \/ Tick(UNITCHANGED_DELAY, MaxSteps * UNITCHANGED_DELAY)

SpecAccessory == InitAccessory(Policies) /\ [][NextAccessory]_vars

\* Kelvin values and limits of the pushes, and mired values HomeKit sets
\* (the characteristic ranges over 140..500)
CctMsgs ==
  {Msg(UnitId, -1, Cct(3000, 2200, 6000)), Msg(UnitId, -1, Cct(3500, 3000, 3500)),
   Msg(UnitId, 30, Cct(2700, 2700, 4000))}

Mireds == {140, 250, 285, 333, 370, 500}

NextCct ==
  \/ \E m \in CctMsgs : UnitChangedArrives(m, MaxUpdates)
  \/ \E t \in acc.tmr : UnitChangedTimeout(t)
  \/ \E mired \in Mireds : HomeKitSetColorTemperature(mired)
  \/ \E ok \in BOOLEAN : CallbackArrives(ok)
  \/ Tick(UNITCHANGED_DELAY, MaxSteps * UNITCHANGED_DELAY)

SpecCct == InitAccessory({"debounce"}) /\ [][NextCct]_vars


\* the "timestamp" snapshot under set requests and unit states, also states
\* without controls and of a unit that is offline
StateMsgs ==
  DimmerMsgs \cup {UnitState(UnitId, FALSE, -1, NoCct, TRUE), UnitState(UnitId, TRUE, 30, NoCct, FALSE),
                   Msg(OtherUnitId, 30, NoCct)}

NextTimestamp ==
  \/ \E m \in StateMsgs : UnitChangedArrives(m, MaxUpdates)
  \/ HomeKitSetBrightness(70)
  \/ \E ok \in BOOLEAN : CallbackArrives(ok)
  \/ Tick(SUPPRESS_WINDOW \div 4, MaxSteps * (SUPPRESS_WINDOW \div 4))

SpecTimestamp == InitAccessory({"timestamp"}) /\ [][NextTimestamp]_vars


\* the snapshots that send through the session, with and without onceCallback,
\* under set requests whose callback returns or throws
NextCallback ==
  \/ \E v \in BOOLEAN : HomeKitSetOn(v)
  \/ \E v \in Dimmers \ {0} : HomeKitSetBrightness(v)
  \/ \E ok \in BOOLEAN : CallbackArrives(ok)
  \/ \E ok \in BOOLEAN : CallbackThrows(ok)

SpecCallback == InitAccessory({"debounce", "unguarded"}) /\ [][NextCallback]_vars


\* every snapshot among the units of its network: pushes for the unit of the
\* accessory and for another one, with set requests in between
OtherMsgs == {Msg(OtherUnitId, 0, NoCct), Msg(OtherUnitId, 70, Cct(3000, 2200, 6000))}

NextUnits ==
  \/ \E m \in {Msg(UnitId, 30, NoCct)} \cup OtherMsgs : UnitChangedArrives(m, MaxUpdates)
  \/ \E t \in acc.tmr : UnitChangedTimeout(t)
  \/ \E t \in acc.tmr : ControlUnitTimeout(t)
  \/ HomeKitSetBrightness(70)
  \/ CallbackArrives(TRUE)
  \/ Tick(UNITCHANGED_DELAY, MaxSteps * UNITCHANGED_DELAY)

SpecUnits == InitAccessory(Policies \cup {"timestamp", "unguarded"}) /\ [][NextUnits]_vars

\* ------------------------------------------------------------------- claims
\* the wires of the openWire calls of session s that are still unsettled on a
\* socket that is connecting or open
InFlight(s) ==
  {waitOpen[i].w : i \in {j \in DOMAIN waitOpen :
      waitOpen[j].s = s /\ sock[waitOpen[j].sock].rs = "CONNECTING"}}
  \cup {handlers[i].w : i \in {j \in DOMAIN handlers :
      /\ handlers[j].s = s
      /\ handlers[j].sock # 0
      /\ sock[handlers[j].sock].rs = "OPEN"}}

\* C1: openWire calls that overlap on one session share one open handshake: a
\* session never has two open handshakes (two wire IDs) in flight at once.
C1_OneHandshakePerSession == \A s \in Sess : Cardinality(InFlight(s)) <= 1

\* the events of the last task that are ev
Did(e) == {i \in DOMAIN out : out[i].ev = e}

Live == {k \in DOMAIN sock : sock[k].rs \in {"CONNECTING", "OPEN"}}

TimersOf(kind) == {t \in BagToSet(timers) : t.kind = kind}

CountOf(kind) ==
  LET RECURSIVE Sum(_)
      Sum(S) == IF S = {} THEN 0
                ELSE LET t == CHOOSE x \in S : TRUE IN CopiesIn(t, timers) + Sum(S \ {t})
  IN Sum(TimersOf(kind))

\* C2: after a transport close, when a controlUnit frame is sent for a session,
\* exactly one open handshake has been made for that session since the close.
C2_OneHandshakeBeforeCommand ==
  closes > 0 => \A i \in Did("controlUnit") : opens[out[i].s] = 1

\* C3: after a lost or failed connection there is always a socket connecting or
\* open, a close still to be handled, or a reconnect timer pending.
C3_RetryNeverGivenUp ==
  (nSess > 0 /\ closes > 0) =>
    \/ ReadyState(Cur) \in {"CONNECTING", "OPEN"}
    \/ \E k \in DOMAIN sock : sock[k].rs = "CLOSING"
    \/ TimersOf("reconnect") # {}

\* C5: no socket is created while a socket is connecting or open.
C5_OneAttemptInFlight == [][Live # {} => Len(sock') = Len(sock)]_vars

\* C6: at most one live socket, one ping interval, one armed pong watchdog and
\* one pending reconnect timer.
C6_NoDuplicateTimersOrSockets ==
  /\ Cardinality(Live) <= 1
  /\ CountOf("ping") <= 1
  /\ CountOf("pong") <= 1
  /\ CountOf("reconnect") <= 1

\* C4: when the watchdog emits 'timeout', a socket whose close the connection
\* handles is closing, so that 'close' follows; and when 'close' is emitted a
\* reconnect timer of CONNECTION_RETRY_DELAY is armed.  The first part is
\* stated for the instants at which no reconnect timer is pending, so that
\* the 32 s watchdog never comes due ahead of a 5 s timer armed before it.
C4_TimeoutThenCloseThenReconnect ==
  /\ (Did("timeout") # {} /\ TimersOf("reconnect") = {}) =>
       \E k \in DOMAIN sock : sock[k].rs = "CLOSING" /\ sock[k].lst > 0
  /\ Did("close") # {} =>
       CopiesIn(Timer("reconnect", CONNECTION_RETRY_DELAY, FALSE), timers) >= 1

\* C7: an event pushed on a wire is emitted only to the session holding that
\* wire: no other session holds the wire ID of an event a session emits.
C7_NoCrossDelivery ==
  \A i \in Did("unitChanged") :
    \A b \in Sess \ {out[i].s} : wireId[b] # out[i].w

\* C8: no two sessions hold the same non-zero wire ID, and the wire ID of an
\* open frame is not one a session currently holds.
C8_WireIdsNotReused ==
  /\ \A a, b \in Sess : (a # b /\ wireId[a] # 0) => wireId[a] # wireId[b]
  /\ \A i \in Did("open") : \A s \in Sess : wireId[s] # out[i].w

\* the login errors the last task caught
Caught == {out[i].w : i \in Did("loginError")}

\* C9: a login rejected with 401 ends discovery for good: no timer is pending,
\* the platform has registered no connection listener, no socket exists, no
\* wire ID has been allocated, and nothing happens afterwards.
C9_CredentialRejectionStops ==
  /\ [](401 \in Caught => phase = "rejected")
  /\ [](phase = "rejected" =>
          /\ timers = EmptyBag
          /\ platLst = 0
          /\ sock = <<>>
          /\ nextWireId = 1
          /\ Pending = 0)
  /\ [][phase # "rejected"]_vars

\* a 401 that follows a login failure of another kind
C9_Witness == phase = "rejected" /\ 401 \in Caught /\ failures > 0

C11_MalformedDiscarded ==
  \A i \in Did("malformed") : out = <<out[i]>>

\* the networks of the sites of the user session the last task received
SiteNetworks ==
  LET RECURSIVE Sum(_)
      Sum(I) == IF I = {} THEN 0
                ELSE LET i == CHOOSE x \in I : TRUE IN out[i].w + Sum(I \ {i})
  IN Sum(Did("site"))

\* C18: a user login yields one session for every network of every site, and
\* the sessions share the connection: when connect() has run for them there is
\* one socket, no other socket is created, and every wire is held on it.
C18_FanOutSharesConnection ==
  /\ Did("userSession") # {} => nSess = SiteNetworks
  /\ (Did("connect") # {} /\ nSess > 0) => Len(sock) = 1
  /\ Len(sock) <= 1
  /\ \A s \in Sess : wireSock[s] \in {0, 1}

\* two sites with a network each
C18_Witness ==
  /\ Cardinality(Did("site")) = 2
  /\ \A i \in Did("site") : out[i].w = 1
  /\ nSess = 2

\* C19: a controlUnit frame carries the wire ID of the session its accessory
\* was built on, and an event the server pushes for the network of one
\* session is emitted to the accessories of that session only.
C19_RoutedToOwner ==
  /\ \A i \in Did("controlUnit") : out[i].w = wireId[out[i].s]
  /\ \A i \in Did("unitChanged"), j \in Did("push") : out[i].s = out[j].s

\* the events of the task a step runs that are ev
Does(e) == {i \in DOMAIN out' : out'[i].ev = e}

\* C20: a wireStatus reply that rejects a pending open settles that open only:
\* its handler is removed and its caller alone gets the error; the sockets,
\* the timers, the wire IDs of all sessions, the other pending handshakes and
\* the opens waiting for the socket stay as they are.
C20_RejectionIsLocal ==
  [][\A i \in Does("wireRejected") :
       /\ sock' = sock /\ ws' = ws /\ timers' = timers
       /\ wireId' = wireId /\ wireSock' = wireSock
       /\ waitOpen' = waitOpen
       /\ \E j \in DOMAIN handlers :
            /\ handlers[j].w = out'[i].w /\ handlers[j].s = out'[i].s
            /\ handlers' = RemoveAt(handlers, j)
       /\ Does("wireOpen") = {} /\ Does("controlUnit") = {}
       /\ \E j \in Does("cb_err") \cup Does("unhandled") :
            /\ out'[j].s = out'[i].s
            /\ Does("cb_err") \cup Does("unhandled") = {j}]_vars

\* a rejection while another handshake is pending and a session holds a wire
C20_Witness ==
  /\ Did("wireRejected") # {}
  /\ handlers # <<>>
  /\ \E s \in Sess : wireId[s] # 0

\* ------------------------------------------------------------ accessories
PushTimes == [i \in DOMAIN acc.pushes |-> acc.pushes[i].t]

\* the On and Brightness characteristics show what a Dimmer message reports
Shows(m) == acc.on = (m.dimmer > 0) /\ (m.dimmer > 0 => acc.bri = m.dimmer)

WasApplied(i) == \E k \in DOMAIN acc.applied : acc.applied[k].i = i

Burst == PushTimes = <<0, 100, 200, 600>>

\* C12: of the pushes received at 0, 100, 200 and 600 ms for the unit exactly
\* one update of the characteristics is made, UNITCHANGED_DELAY after the last
\* of them (the push at 600 ms restarts the timer the push at 200 ms armed
\* before it has run out), and it shows the payload of the push at 600 ms
C12_BurstAppliedOnce ==
  Burst =>
    /\ acc.applied \in {<<>>, <<[t |-> 600 + UNITCHANGED_DELAY, i |-> 4]>>}
    /\ acc.now > 600 + UNITCHANGED_DELAY => acc.applied # <<>>
    /\ acc.applied # <<>> => Shows(acc.pushes[4].msg)

C12_Witness ==
  /\ Burst
  /\ acc.now > 600 + UNITCHANGED_DELAY
  /\ acc.applied = <<[t |-> 600 + UNITCHANGED_DELAY, i |-> 4]>>
  /\ acc.pushes[3].msg # acc.pushes[4].msg

\* C12 as stated: the one update is made at about 700 ms and shows the payload
\* of the push at 200 ms
C12_AppliedAt700 ==
  (Burst /\ acc.now > 600 + UNITCHANGED_DELAY) =>
    /\ Len(acc.applied) = 1
    /\ acc.applied[1].i = 3
    /\ acc.applied[1].t \in 600..800

\* C13: every push for the unit restarts the timer, so that at most one is
\* pending and it belongs to the last push; a push is applied if and only if
\* no later push for the unit arrives within UNITCHANGED_DELAY of it (at the
\* instant the delay runs out either may come first), it is applied once, when
\* the delay has run out, and the characteristics then show its payload
C13_DebounceOnReceipt ==
  LET P == acc.pushes
      A == acc.applied
      pending == {t \in acc.tmr : t.kind = "unitChanged"}
  IN /\ Cardinality(pending) <= 1
     /\ \A t \in pending : t.h /\ t.i = Len(P) /\ t.due = P[t.i].t + UNITCHANGED_DELAY
     /\ (P # <<>> /\ ~WasApplied(Len(P))) => pending # {}
     /\ \A k \in DOMAIN A :
          /\ \A j \in DOMAIN P : j > A[k].i => P[j].t >= P[A[k].i].t + UNITCHANGED_DELAY
          /\ A[k].t = P[A[k].i].t + UNITCHANGED_DELAY
          /\ \A l \in DOMAIN A : l # k => A[l].i # A[k].i
     /\ \A i \in DOMAIN P :
          (/\ \A j \in DOMAIN P : j > i => P[j].t > P[i].t + UNITCHANGED_DELAY
           /\ acc.now > P[i].t + UNITCHANGED_DELAY) => WasApplied(i)
     /\ A # <<>> => Shows(P[A[Len(A)].i].msg)

C13_Witness ==
  /\ Len(acc.applied) = 2
  /\ acc.applied[1].i = 2
  /\ acc.applied[2].i = 4
  /\ acc.pushes[1].msg # acc.pushes[2].msg

\* the first push received after the last frame was sent
Echo == acc.sent.n + 1

\* C14: under the first snapshot's policy a push for the unit that is the first
\* to arrive after a command, less than CONTROLUNIT_TIMEOUT after it (the echo:
\* command at 0, push at 1000 ms), is not applied to the characteristics
C14_EchoNotApplied ==
  (/\ acc.policy = "suppress"
   /\ acc.sent.t >= 0
   /\ Echo \in DOMAIN acc.pushes
   /\ acc.pushes[Echo].t < acc.sent.t + CONTROLUNIT_TIMEOUT) => ~WasApplied(Echo)

C14_Witness ==
  /\ acc.policy = "suppress"
  /\ acc.sent = [t |-> 0, n |-> 0]
  /\ Len(acc.pushes) = 1
  /\ acc.pushes[1].t = 1000
  /\ acc.now > 1000
  /\ acc.cb = <<>>
  /\ acc.bri = 30
  /\ acc.pushes[1].msg.dimmer = 30
  /\ acc.applied = <<>>

\* C15: when no push for the unit has arrived within CONTROLUNIT_TIMEOUT of the
\* last command the window is cleared, by a task that does nothing else (it
\* logs, and makes no callback), and the next push for the unit is applied on
\* arrival
C15_WindowExpires ==
  acc.policy = "suppress" =>
    /\ \A i \in Did("info") : out = <<out[i]>> /\ AccHeld(acc, "controlUnit") = {}
    /\ (/\ acc.sent.t >= 0
        /\ acc.now > acc.sent.t + CONTROLUNIT_TIMEOUT
        /\ \A i \in DOMAIN acc.pushes :
             i > acc.sent.n => acc.pushes[i].t > acc.sent.t + CONTROLUNIT_TIMEOUT)
       => /\ AccHeld(acc, "controlUnit") = {}
          /\ \A i \in DOMAIN acc.pushes :
               i > acc.sent.n => \E k \in DOMAIN acc.applied :
                                   acc.applied[k] = [t |-> acc.pushes[i].t, i |-> i]

C15_Witness ==
  /\ acc.policy = "suppress"
  /\ acc.sent = [t |-> 0, n |-> 0]
  /\ Len(acc.pushes) = 1
  /\ acc.pushes[1].t > CONTROLUNIT_TIMEOUT
  /\ acc.applied = <<[t |-> acc.pushes[1].t, i |-> 1]>>
  /\ acc.cb = <<>>
  /\ Shows(Msg(UnitId, 70, NoCct))

\* the accessory is at rest and the last thing to happen to it was a push
Quiescent ==
  /\ acc.tmr = {}
  /\ acc.cb = <<>>
  /\ acc.pushes # <<>>
  /\ acc.sent.n < Len(acc.pushes)
  /\ acc.acked < Len(acc.pushes)

\* C16: under either policy, once the accessory is at rest after commands and
\* pushes of which a push came last, On and Brightness show what the last push
\* received for the unit reports
C16_LastWriteWins == Quiescent => Shows(acc.pushes[Len(acc.pushes)].msg)

\* the part of it that the latest snapshot keeps
C16_LastWriteWinsDebounce == acc.policy = "debounce" => C16_LastWriteWins

\* x = y for quotients with positive denominators
Same(x, y) == x.n * y.d = y.n * x.d

\* the applied pushes that carry a CCT control
AppliedCct == {k \in DOMAIN acc.applied : acc.pushes[acc.applied[k].i].msg.cct.has}

LastAppliedCct ==
  acc.pushes[acc.applied[CHOOSE k \in AppliedCct : \A l \in AppliedCct : l <= k].i].msg.cct

\* the limits in force: the defaults until a CCT push has been applied
MinKelvin == IF AppliedCct = {} THEN 2700 ELSE LastAppliedCct.min

MaxKelvin == IF AppliedCct = {} THEN 4000 ELSE LastAppliedCct.max

\* C17: the Kelvin value sent for a mired value m is 1000000/m when that lies
\* between the limits in force, the lower limit when it is below and the upper
\* limit when it is above, so never outside them; the limits are 2700 and 4000
\* until a CCT push has been applied and then those of the CCT push applied
\* last; a Kelvin value k that is applied is displayed as 1000000/k mired
C17_KelvinClamped ==
  /\ \A e \in Did("ColorTemperature") :
       LET k == out[e].w
           x == Rat(1000000, acc.cb[Len(acc.cb)].val.n)
           lo == Rat(MinKelvin, 1)
           hi == Rat(MaxKelvin, 1)
       IN /\ ~Less(k, lo) /\ ~Less(hi, k)
          /\ Less(x, lo) => Same(k, lo)
          /\ Less(hi, x) => Same(k, hi)
          /\ (~Less(x, lo) /\ ~Less(hi, x)) => Same(k, x)
  /\ \A e \in Did("update") :
       LET c == acc.pushes[out[e].w].msg.cct
       IN c.has => acc.ct = Rat(1000000, c.value)

C17_Witness ==
  /\ AppliedCct # {}
  /\ MaxKelvin = 6000
  /\ \E e \in Did("ColorTemperature") :
       /\ acc.cb[Len(acc.cb)].val.n = 140
       /\ out[e].w = Rat(6000, 1)

\* a command was sent less than CONTROLUNIT_TIMEOUT ago and no push for the
\* unit has been received since
InWindow ==
  /\ acc.sent.t >= 0
  /\ Len(acc.pushes) = acc.sent.n
  /\ acc.now < acc.sent.t + CONTROLUNIT_TIMEOUT

\* no command was sent, or a push was received since, or the window ran out
OutOfWindow ==
  \/ acc.sent.t < 0
  \/ Len(acc.pushes) > acc.sent.n
  \/ acc.now > acc.sent.t + CONTROLUNIT_TIMEOUT

WindowTimers(a) == {t \in a.tmr : t.kind = "controlUnit"}

\* C29: in the first snapshot a push for the unit inside the window is dropped
\* and ends the window at once; a push outside it (so every further push until
\* the next command) is applied on arrival; a command leaves exactly one
\* window timer, due CONTROLUNIT_TIMEOUT after that command
C29_OneDropPerWindow ==
  [][acc.policy = "suppress" =>
       /\ (Does("unitPush") # {} /\ InWindow) =>
            /\ acc'.applied = acc.applied
            /\ WindowTimers(acc') = {}
       /\ (Does("unitPush") # {} /\ OutOfWindow) =>
            /\ acc'.applied = Append(acc.applied, [t |-> acc.now, i |-> Len(acc'.pushes)])
            /\ WindowTimers(acc') = {}
       /\ Does("Dimmer") # {} =>
            WindowTimers(acc') = {[kind |-> "controlUnit", i |-> 0, h |-> TRUE,
                                   due |-> acc.now + CONTROLUNIT_TIMEOUT]}]_vars

C29_Witness ==
  /\ acc.policy = "suppress"
  /\ acc.cmds = 2
  /\ acc.sent = [t |-> 500, n |-> 0]
  /\ Len(acc.pushes) = 2
  /\ acc.pushes[1].t = 1000
  /\ acc.pushes[2].t = 1000
  /\ acc.applied = <<[t |-> 1000, i |-> 2]>>

\* C30: in the first snapshot setOn(true) inside the window sends nothing,
\* leaves the window timer as it is and makes its callback without an error;
\* setOn(false), and setOn(true) outside the window, send a Dimmer command, of
\* 0 and of the Brightness characteristic respectively
C30_TurnOnSkipped ==
  [][acc.policy = "suppress" =>
       \A e \in Does("setOn") :
         /\ (out'[e].w = 1 /\ InWindow) =>
              /\ out' = <<out'[e], Ev("cb_ok", UnitId, 0)>>
              /\ acc'.tmr = acc.tmr
              /\ acc'.cb = acc.cb
              /\ acc'.sent = acc.sent
         /\ (out'[e].w = 0 \/ OutOfWindow) =>
              /\ out' = <<out'[e], Ev("Dimmer", UnitId, IF out'[e].w = 1 THEN acc.bri ELSE 0)>>
              /\ acc'.sent = [t |-> acc.now, n |-> Len(acc.pushes)]
              /\ Len(acc'.cb) = Len(acc.cb) + 1]_vars

C30_Witness ==
  /\ acc.policy = "suppress"
  /\ acc.sent.t >= 0
  /\ acc.now > acc.sent.t
  /\ WindowTimers(acc) # {}
  /\ out = <<Ev("setOn", UnitId, 1), Ev("cb_ok", UnitId, 0)>>

\* ------------------------------------------------------------- handshakes
Refs(hs) == {hs[i].ref : i \in DOMAIN hs}

\* the pending open handshakes a step settles
Settled == Refs(handlers) \ Refs(handlers')

\* C21: a pending openWire settles only in the task of a message that has a
\* wireStatus and the ref of that call: a message without wireStatus, or with
\* another ref (whatever its wire), settles nothing, the other pending calls
\* stay pending, and the call settles once, resolving when the status is
\* openWireSucceed and rejecting otherwise
C21_CorrelatedByRef ==
  [][/\ Settled # {} => Does("frame") # {}
     /\ \A e \in Does("frame") :
          LET m == out'[e].w
              mine == {i \in DOMAIN handlers :
                         m.wireStatus # "absent" /\ handlers[i].ref = m.ref}
          IN /\ Settled = {handlers[i].ref : i \in mine}
             /\ handlers' = SelectSeq(handlers, LAMBDA h : h.ref \notin Settled)
             /\ Cardinality(Does("wireOpen") \cup Does("wireRejected")) = Cardinality(mine)
             /\ \A i \in mine :
                  IF m.wireStatus = "openWireSucceed"
                  THEN /\ Does("wireRejected") = {}
                       /\ \E d \in Does("wireOpen") : out'[d] = Ev("wireOpen", handlers[i].s, handlers[i].w)
                  ELSE /\ Does("wireOpen") = {}
                       /\ \E d \in Does("wireRejected") :
                            out'[d] = Ev("wireRejected", handlers[i].s, handlers[i].w)]_vars

\* a reply with the wire of a pending call and the ref of no call has arrived,
\* and the call is still pending
C21_Witness ==
  /\ Len(handlers) = 2
  /\ \E e \in Did("frame") :
       /\ out[e].w.wireStatus = "openWireSucceed"
       /\ out[e].w.wire = handlers[1].w
       /\ out[e].w.ref \notin Refs(handlers)
  /\ Did("wireOpen") = {}

\* an openWire call for session s made in this step has added nothing
NothingAskedFor(s) ==
  /\ \A e \in Does("open") : out'[e].s # s
  /\ SelectSeq(handlers', LAMBDA h : h.s = s) = SelectSeq(handlers, LAMBDA h : h.s = s)
  /\ SelectSeq(waitOpen', LAMBDA p : p.s = s) = SelectSeq(waitOpen, LAMBDA p : p.s = s)

\* a call on a session that holds a wire allocates no wire ID, creates no
\* socket, sends no frame but the command's and keeps the wire
OpenWireWhenOpen ==
  /\ \A e \in Does("set") :
       LET s == out'[e].s
       IN wireId[s] > 0 =>
            /\ nextWireId' = nextWireId
            /\ sock' = sock /\ ws' = ws
            /\ NothingAskedFor(s)
            /\ wireId' = wireId
            /\ \/ out' = <<out'[e], Ev("controlUnit", s, wireId[s]), Ev("cb_ok", s, 0)>>
               \/ out' = <<out'[e], Ev("cb_err", s, 0)>>
  /\ Does("connect") # {} =>
       \A s \in 1..nSess : wireId[s] > 0 => NothingAskedFor(s) /\ wireId'[s] = wireId[s]

\* the wire a session holds is kept until the connection emits 'close'
WireKeptUntilClose ==
  \A s \in Sess : wireId[s] > 0 => (wireId'[s] = wireId[s] \/ Does("close") # {})

\* C22: openWire on a session whose wireId is not 0 resolves at once without
\* allocating a wire ID, creating a socket or sending an open frame, and the
\* wireId a session holds stays the same, whatever calls are made, until the
\* connection emits 'close'
C22_OpenWireIdempotent == [][OpenWireWhenOpen /\ WireKeptUntilClose]_vars

\* the part of it that holds: the calls made while a wire is held
C22_OpenWireWhenOpen == [][OpenWireWhenOpen]_vars

\* the wire a session holds was confirmed on a socket that has not closed
WireOnLiveSocket ==
  \A s \in Sess : wireId[s] # 0 => wireSock[s] # 0 /\ sock[wireSock[s]].rs # "CLOSED"

\* C23: a session's wireId is 0 when the session is created, becomes non-zero
\* only in the task in which an open handshake of that session succeeds (and
\* is then the wire of that handshake), and is 0 for every session when the
\* connection has emitted 'close'; no session holds a wire that was confirmed
\* on a socket that has closed since
C23_WireLifecycle ==
  [][/\ \A s \in Sess : s > nSess => wireId[s] = 0 /\ wireId'[s] = 0
     /\ \A s \in Sess :
          (wireId'[s] # 0 /\ wireId'[s] # wireId[s]) =>
            /\ \E i \in DOMAIN handlers : handlers[i].s = s /\ handlers[i].w = wireId'[s]
            /\ \E d \in Does("wireOpen") : out'[d] = Ev("wireOpen", s, wireId'[s])
     /\ Does("close") # {} => \A s \in Sess : wireId'[s] = 0
     /\ WireOnLiveSocket']_vars

\* a connection was lost with its wires, and a session holds a wire again
C23_Witness ==
  /\ closes > 0
  /\ sock[1].rs = "CLOSED"
  /\ opens[1] > 0
  /\ \E k \in DOMAIN sock : k > 1 /\ sock[k].rs = "OPEN" /\ wireSock[1] = k /\ wireId[1] # 0

\* C24: no set request hangs: one whose callback has not been made is waiting
\* for a socket that can still open or close, or for the reply to an open frame
\* on a socket that has not closed, so that the reply or the loss of the
\* connection makes the callback
C24_CommandSettles ==
  /\ \A i \in DOMAIN waitOpen :
       waitOpen[i].cont = "cmd" => sock[waitOpen[i].sock].rs # "CLOSED"
  /\ \A i \in DOMAIN handlers :
       handlers[i].cont = "cmd" =>
         handlers[i].sock # 0 /\ sock[handlers[i].sock].rs # "CLOSED"

\* the part of it that holds: a request waiting for the socket to open
C24_WaitingForSocketSettles ==
  \A i \in DOMAIN waitOpen :
    waitOpen[i].cont = "cmd" => sock[waitOpen[i].sock].rs # "CLOSED"

\* what follows position e of the effects of a step: the frame of a command of
\* session s on wire w and the callback without error when this.ws is an open
\* socket, the callback with the error otherwise
Transmitted(e, s, w) ==
  IF ws' # 0 /\ sock'[ws'].rs = "OPEN"
  THEN /\ e + 2 \in DOMAIN out'
       /\ out'[e + 1] = Ev("controlUnit", s, w)
       /\ out'[e + 2] = Ev("cb_ok", s, 0)
  ELSE /\ e + 1 \in DOMAIN out'
       /\ out'[e + 1] = Ev("cb_err", s, 0)

\* C25: the callback of a set request is made without error in the task that
\* hands the controlUnit frame to an open socket, next after the frame and
\* without any message of the device having been received, and only then; when
\* the frame cannot be handed over (the socket is not open, or there is none)
\* the callback is made with the error
C25_CompletesOnTransmission ==
  [][/\ \A e \in Does("controlUnit") :
          e + 1 \in DOMAIN out' /\ out'[e + 1] = Ev("cb_ok", out'[e].s, 0)
     /\ \A e \in Does("cb_ok") :
          /\ e > 1 /\ out'[e - 1].ev = "controlUnit" /\ out'[e - 1].s = out'[e].s
          /\ Does("push") = {} /\ Does("unitChanged") = {}
     /\ \A e \in Does("set") : wireId[out'[e].s] > 0 => Transmitted(e, out'[e].s, wireId[out'[e].s])
     /\ \A e \in Does("wireOpen") :
          (\E i \in DOMAIN handlers :
             /\ handlers[i].s = out'[e].s
             /\ handlers[i].w = out'[e].w
             /\ handlers[i].cont = "cmd") => Transmitted(e, out'[e].s, out'[e].w)]_vars

\* a command on a session that holds a wire, made when the socket is closing
C25_Witness ==
  \E e \in Did("set") :
    /\ out = <<out[e], Ev("cb_err", out[e].s, 0)>>
    /\ wireId[out[e].s] > 0
    /\ ws # 0
    /\ sock[ws].rs = "CLOSING"

\* a command sent at once on the wire the session holds
C25_WitnessSent ==
  \E e \in Did("set") :
    out = <<out[e], Ev("controlUnit", out[e].s, wireId[out[e].s]), Ev("cb_ok", out[e].s, 0)>>

\* -------------------------------------------------------------- keepalive
\* a socket enters OPEN in this step
Opened == {k \in DOMAIN sock : sock[k].rs = "CONNECTING" /\ sock'[k].rs = "OPEN"}

\* the watchdog is armed in this step: one timer, with PONG_TIMEOUT to run
ArmedAnew ==
  /\ TimersOf("pong")' = {Timer("pong", PONG_TIMEOUT, TRUE)}
  /\ CopiesIn(Timer("pong", PONG_TIMEOUT, TRUE), timers') = 1

\* the watchdog is armed when a socket opens and on every pong, and cleared on close
WatchdogArmedAndCleared ==
  /\ (Opened # {} \/ Does("pong") # {}) => ArmedAnew
  /\ Does("close") # {} => TimersOf("pong")' = {}

\* no 'timeout' and no ping for a socket whose 'close' has been handled
QuietAfterClose ==
  /\ Does("timeout") # {} => clock.by # 0 /\ clock.by \notin clock.handled
  /\ \A e \in Does("ping") : out'[e].w \notin clock'.handled

\* a 'timeout' comes no sooner than PONG_TIMEOUT after the last open or pong
TimeoutOnlyWhenOverdue ==
  Does("timeout") # {} => clock.now - clock.armed >= PONG_TIMEOUT

\* C26: the pong watchdog is armed with PONG_TIMEOUT (32 s) when a socket
\* opens and again on every pong, and is cleared on close; for a socket whose
\* 'close' has been handled no 'timeout' is emitted and no ping is sent
C26_Watchdog == [][WatchdogArmedAndCleared /\ QuietAfterClose]_vars

\* the parts of it that hold for the whole system: the watchdog is armed anew
\* by every onOpen that runs and by every pong, and a close is followed by
\* neither timeout nor ping for its socket
C26_RearmedOnPong ==
  [][/\ (Does("connOpen") # {} \/ Does("pong") # {}) => ArmedAnew
     /\ Does("close") # {} => TimersOf("pong")' = {}
     /\ QuietAfterClose]_vars

\* and, in time, while sockets are created by connect() only: 'timeout' is not
\* emitted sooner than PONG_TIMEOUT after the last pong or open
C26_TimeoutOnlyWhenOverdue ==
  [][WatchdogArmedAndCleared /\ TimeoutOnlyWhenOverdue /\ QuietAfterClose]_vars

\* a timeout after a pong had re-armed the watchdog, followed by the close
C26_TimedOut ==
  /\ clock.armed >= PING_INTERVAL
  /\ clock.now >= clock.armed + PONG_TIMEOUT
  /\ clock.handled = {1}
  /\ Did("close") # {}
  /\ TimersOf("pong") = {}

\* ------------------------------------------------------------ accessories
\* the UUIDs of the Luminaires and Drivers of the unit lists received
SupportedUuids ==
  UNION {{Uuid(reg.seen[i][j].address) :
            j \in {n \in DOMAIN reg.seen[i] : reg.seen[i][n].type \in {"Luminaire", "Driver"}}} :
         i \in DOMAIN reg.seen}

\* no accessory restored from the cache is registered
RestoredNotRegistered ==
  \A i \in DOMAIN reg.registered : reg.registered[i] \notin reg.cache

\* C27: in a discovery run no accessory restored from the cache is passed to
\* registerPlatformAccessories and no UUID is registered twice, also when units
\* of different networks have the same address
C27_RegisteredOnce ==
  /\ RestoredNotRegistered
  /\ \A i, j \in DOMAIN reg.registered : i # j => reg.registered[i] # reg.registered[j]

\* C28: when discovery has completed, an accessory of the cache has been
\* unregistered (once) if and only if no Luminaire or Driver of any session's
\* unit list gave its UUID, and nothing else has been unregistered
C28_StaleUnregistered ==
  /\ phase \in {"login", "discover"} => reg.unregistered = <<>>
  /\ phase = "done" =>
       /\ {reg.unregistered[i] : i \in DOMAIN reg.unregistered} = reg.cache \ SupportedUuids
       /\ \A i, j \in DOMAIN reg.unregistered : i # j => reg.unregistered[i] # reg.unregistered[j]

\* discovery of two networks has completed; of the cache one accessory was
\* found again, one belongs to a unit of a type no longer supported, one to none
C28_Witness ==
  /\ phase = "done"
  /\ Len(reg.seen) = 2
  /\ Cardinality(reg.cache) = 3
  /\ Cardinality(reg.cache \cap SupportedUuids) = 1
  /\ Len(reg.unregistered) = 2
  /\ \E i \in DOMAIN reg.seen, j \in 1..MaxUnits :
       j \in DOMAIN reg.seen[i] /\ reg.seen[i][j].type = "Gateway"
                                 /\ Uuid(reg.seen[i][j].address) \notin SupportedUuids

\* ------------------------------------------------------------ the wire counter
\* C40: newWireId returns a value in 1..MAX_WIRE_ID, never 0; the n-th call
\* returns n for n up to MAX_WIRE_ID, and the call after one that returned
\* MAX_WIRE_ID returns 1, the call after one that returned w < MAX_WIRE_ID
\* returns w + 1
C40_WireIdsCycle ==
  [][\A i \in Does("newWireId") :
       LET w == out'[i].w
       IN /\ w \in 1..MAX_WIRE_ID
          /\ nCmds' <= MAX_WIRE_ID => w = nCmds'
          /\ \A j \in Did("newWireId") :
               w = IF out[j].w = MAX_WIRE_ID THEN 1 ELSE out[j].w + 1]_vars

\* the counter has wrapped: the call after the one that returned MAX_WIRE_ID
\* has returned 1
C40_Witness ==
  /\ nCmds = MAX_WIRE_ID + 1
  /\ \E i \in Did("newWireId") : out[i].w = 1

\* ------------------------------------------------- the "timestamp" snapshot
\* a send has completed less than SUPPRESS_WINDOW ago and no state of the unit
\* has been received since
JustCompleted ==
  /\ acc.done.t >= 0
  /\ acc.now - acc.done.t < SUPPRESS_WINDOW
  /\ Len(acc.pushes) = acc.done.n

\* C31: in the "timestamp" snapshot a state of the unit is left unapplied if and
\* only if the most recent send completed less than 1000 ms before and no
\* state has been received since that completion; a message without controls
\* or of a unit that is offline changes nothing of the accessory
C31_FirstPushAfterSendSuppressed ==
  [][/\ Does("noState") # {} => acc' = acc
     /\ Does("unitPush") # {} =>
          /\ Len(acc'.pushes) = Len(acc.pushes) + 1
          /\ (acc'.applied = acc.applied) <=> JustCompleted
          /\ acc'.applied # acc.applied =>
               acc'.applied = Append(acc.applied, [t |-> acc.now, i |-> Len(acc'.pushes)])]_vars

\* after a send had completed, a message without controls came, then the first
\* state was left unapplied and the second, still within the second, was applied
C31_Witness ==
  /\ acc.policy = "timestamp"
  /\ acc.done.t >= 0 /\ acc.done.n = 0
  /\ Len(acc.pushes) = 2
  /\ acc.pushes[2].t - acc.done.t < SUPPRESS_WINDOW
  /\ acc.applied = <<[t |-> acc.pushes[2].t, i |-> 2]>>

\* a message without controls has arrived while a send had just completed
C31_WitnessNoState ==
  /\ acc.policy = "timestamp"
  /\ JustCompleted
  /\ Did("noState") # {}

\* ----------------------------------------------------- setOn on a dimmer
\* the pushes applied by the step
AppliedNow == {acc'.applied[n].i : n \in (DOMAIN acc'.applied) \ (DOMAIN acc.applied)}

\* the step is a setBrightness
SetsBrightness == \E i \in Does("Dimmer") : acc'.cb = Append(acc.cb, [char |-> "bri", val |-> out'[i].w])

\* C32: in the latest snapshot setOn(false) sends Dimmer 0 and setOn(true)
\* sends the remembered brightness, or 100 (that is 1.0) when that is 0; the
\* remembered brightness changes only in setBrightness and when a push with
\* Dimmer > 0 is applied; applying a push with Dimmer 0 sets On to false and
\* leaves the Brightness characteristic and the remembered brightness alone
C32_SetOnUsesRememberedBrightness ==
  [][acc.policy = "debounce" =>
       /\ \A i \in Does("setOn") :
            /\ Cardinality(Does("Dimmer")) = 1
            /\ \A j \in Does("Dimmer") :
                 out'[j].w = IF out'[i].w = 0 THEN 0
                             ELSE IF acc.brightness = 0 THEN 100 ELSE acc.brightness
            /\ acc'.brightness = acc.brightness
       /\ acc'.brightness # acc.brightness =>
            \/ SetsBrightness /\ \E j \in Does("Dimmer") : acc'.brightness = out'[j].w
            \/ \E i \in AppliedNow : /\ acc.pushes[i].msg.dimmer > 0
                                     /\ acc'.brightness = acc.pushes[i].msg.dimmer
       /\ \A i \in AppliedNow :
            /\ acc.pushes[i].msg.dimmer > 0 => acc'.brightness = acc.pushes[i].msg.dimmer
            /\ acc.pushes[i].msg.dimmer = 0 =>
                 ~acc'.on /\ acc'.bri = acc.bri /\ acc'.brightness = acc.brightness]_vars

\* the light was at 70 and on, a push with Dimmer 0 has been applied, and
\* setOn(true) has sent 70
C32_Witness ==
  /\ acc.policy = "debounce"
  /\ acc.brightness = 70 /\ acc.bri = 70 /\ ~acc.on
  /\ acc.applied # <<>>
  /\ acc.pushes[acc.applied[Len(acc.applied)].i].msg.dimmer = 0
  /\ \E i \in Did("setOn") : out[i].w = 1
  /\ \E j \in Did("Dimmer") : out[j].w = 70

\* nothing is remembered and setOn(true) has sent 100
C32_WitnessDefault ==
  /\ acc.policy = "debounce"
  /\ acc.brightness = 0
  /\ \E i \in Did("setOn") : out[i].w = 1
  /\ \E j \in Did("Dimmer") : out[j].w = 100

\* ------------------------------------------------------ the set callback
\* the calls of the callback of HomeKit the step makes
CallbackCalls == Does("cb_ok") \cup Does("cb_err")

\* C33: the callback of a set request is called at most once for a call of the
\* accessory's sendControlUnit, whether the send is fulfilled or rejected and
\* whether the callback returns or throws: a task that settles one send calls
\* one callback
C33_CallbackAtMostOnce ==
  [][Len(acc'.cb) = Len(acc.cb) - 1 => Cardinality(CallbackCalls) <= 1]_vars

\* with onceCallback (the latest snapshot) the callback is called once per send
C33_CallbackOnceGuarded ==
  [][acc.policy = "debounce" /\ Len(acc'.cb) = Len(acc.cb) - 1
       => Cardinality(CallbackCalls) = 1]_vars

\* the latest snapshot: the send was fulfilled, the callback threw and was
\* not called again
C33_WitnessGuarded ==
  /\ acc.policy = "debounce"
  /\ Did("thrown") # {} /\ Did("cb_ok") # {} /\ Did("cb_err") = {}

\* ------------------------------------------------------- pushes of other units
\* the step delivers a message of another unit to the accessory
OtherUnitDelivered ==
  \E i \in DOMAIN out' : /\ out'[i].ev \in {"otherUnit", "unitPush", "noState"}
                         /\ out'[i].s # UnitId

\* C34: a unitChanged message whose id is not the accessory's unitId leaves the
\* accessory as it is: its timers (the debounce timer, the suppression window)
\* and their handles, its characteristics, its CCT limits and everything else
C34_OtherUnitIgnored == [][OtherUnitDelivered => acc' = acc]_vars

\* a message of another unit has arrived while the debounce timer was running
C34_Witness ==
  /\ acc.policy = "debounce"
  /\ Did("otherUnit") # {}
  /\ AccHeld(acc, "unitChanged") # {}
  /\ \E t \in AccHeld(acc, "unitChanged") : t.due < acc.now + UNITCHANGED_DELAY

\* a message of another unit has arrived within the suppression window
C34_WitnessSuppress ==
  /\ acc.policy = "suppress"
  /\ Did("otherUnit") # {}
  /\ AccHeld(acc, "controlUnit") # {}

\* ------------------------------------------------------- controlUnit frames
\* C35: a controlUnit frame is never written with wire 0: the wire it carries
\* is one the server confirmed to the sending session on the socket the frame
\* is written to, which is the open socket of the connection
C35_ControlUnitOnOwnWire ==
  [][\A i \in Does("controlUnit") :
       /\ out'[i].w # 0
       /\ out'[i].w = wireId'[out'[i].s]
       /\ ws' # 0
       /\ sock'[ws'].rs = "OPEN"
       /\ wireSock'[out'[i].s] = ws']_vars

\* no controlUnit frame carries wire 0
C35_NeverWireZero == \A i \in Did("controlUnit") : out[i].w # 0

\* a controlUnit frame has been written on the second socket
C35_Witness ==
  /\ \E i \in Did("controlUnit") : out[i].w # 0 /\ wireSock[out[i].s] = ws
  /\ ws > 1

\* the same while the connection has never had two sockets at a time
C35_WithOneSocketAtATime ==
  [][(\A k \in DOMAIN sock' : k # Len(sock') => sock'[k].rs = "CLOSED") =>
       \A i \in Does("controlUnit") :
         /\ out'[i].w = wireId'[out'[i].s]
         /\ ws' # 0
         /\ sock'[ws'].rs = "OPEN"
         /\ wireSock'[out'[i].s] = ws']_vars

\* ------------------------------------------------------ overlapping sockets
\* the socket whose 'close' event the step handles, when the connection refers
\* to another socket
ClosesBeside(k) ==
  /\ sock[k].rs # "CLOSED"
  /\ sock'[k].rs = "CLOSED"
  /\ ws # 0
  /\ ws # k

\* C36: the 'close' event of a socket the connection no longer refers to leaves
\* this.ws and the ping and pong timers of the socket it refers to alone, and
\* the 'open' event of every socket is handled by onOpen
C36_CloseIsLocal ==
  [][/\ \A k \in DOMAIN sock :
          ClosesBeside(k) =>
            /\ ws' = ws
            /\ Held(timers', "ping") = Held(timers, "ping")
            /\ Held(timers', "pong") = Held(timers, "pong")
     /\ \A k \in DOMAIN sock :
          sock[k].rs = "CONNECTING" /\ sock'[k].rs = "OPEN" => Does("connOpen") # {}]_vars

\* the old socket's 'close' leaves this.ws alone
C36_ReferenceKept == [][\A k \in DOMAIN sock : ClosesBeside(k) => ws' = ws]_vars

\* the 'open' event of every socket is handled by onOpen
C36_OpenHandled ==
  [][\A k \in DOMAIN sock :
       sock[k].rs = "CONNECTING" /\ sock'[k].rs = "OPEN" => Does("connOpen") # {}]_vars

\* ------------------------------------------------- wires and discovery
\* C37: no wire is opened before discovery has completed: an open frame is
\* sent, and the socket for it is created, only when the accessories of every
\* session have been constructed and have subscribed to unitChanged
C37_NoWireBeforeDiscovery ==
  [][Does("open") # {} \/ Does("newSocket") # {} =>
       phase' = "done" /\ listed' = nSess']_vars

\* connect() itself runs only when discovery has completed
C37_ConnectAfterDiscovery ==
  [][Does("connect") # {} => phase' = "done" /\ listed' = nSess']_vars

\* ------------------------------------------------------------ closing wires
\* the close frames the step writes for session s
CloseFrames(s) == {j \in Does("closeFrame") : out'[j].s = s}

\* C38: closeWire of a session without a wire resolves and sends nothing;
\* otherwise it writes one close frame, for the wire the session holds, and the
\* session keeps the wire until the send has succeeded: only then is wireClose
\* emitted and wireId set to 0; when the send fails wireId stays as it is
C38_CloseWireOrdered ==
  [][/\ \A i \in Does("closeWire") :
          LET s == out'[i].s
          IN /\ wireId' = wireId
             /\ Does("wireClose") = {}
             /\ wireId[s] = 0 => Does("closeFrame") = {} /\ Does("closeResolved") # {}
             /\ wireId[s] # 0 =>
                  /\ Cardinality(CloseFrames(s)) <= 1
                  /\ \A j \in Does("closeFrame") : out'[j].s = s /\ out'[j].w = wireId[s]
                  /\ CloseFrames(s) = {} <=> Does("closeRejected") # {}
                  /\ Does("closeResolved") = {}
     /\ \A i \in Does("wireClose") :
          /\ \E n \in DOMAIN closing : closing[n].s = out'[i].s /\ Len(closing') = Len(closing) - 1
          /\ wireId'[out'[i].s] = 0
     /\ Does("closeRejected") # {} => wireId' = wireId
     /\ \A s \in Sess :
          wireId[s] # 0 /\ wireId'[s] = 0 =>
            (\E i \in Does("wireClose") : out'[i].s = s) \/ Does("close") # {}]_vars

\* a wire was closed and closeWire, called again, has resolved at once
C38_Witness ==
  /\ nCmds = 2
  /\ closes = 0
  /\ closing = <<>>
  /\ \E i \in Did("closeWire") :
       /\ out[i].w = 0
       /\ opens[out[i].s] = 1
       /\ \A n \in DOMAIN handlers : handlers[n].s # out[i].s
  /\ Did("closeResolved") # {}
  /\ phase = "done"
  /\ \E k \in DOMAIN sock : sock[k].rs = "OPEN"

\* the send of a close frame has failed and the session has kept its wire
C38_WitnessFailed ==
  \E i \in Did("closeRejected") : out[i].w # 0 /\ wireId[out[i].s] = out[i].w

\* ------------------------------------------------- handshake listeners
\* C39: the messageHandlers of openWire do not pile up: when a socket has been
\* lost none of the handlers installed for a handshake on it is still
\* registered on the connection
C39_NoHandlerOfLostSocket ==
  \A i \in DOMAIN handlers :
    handlers[i].sock # 0 => sock[handlers[i].sock].rs # "CLOSED"

\* the messageHandler of a call is removed in the task that settles the call
C39_RemovedWhenSettled ==
  [][Does("wireOpen") \cup Does("wireRejected") # {} =>
       /\ Len(handlers') = Len(handlers) - 1
       /\ \A i \in Does("wireOpen") \cup Does("wireRejected") :
            \A n \in DOMAIN handlers' :
              ~(handlers'[n].s = out'[i].s /\ handlers'[n].w = out'[i].w)]_vars

====
